---- MODULE Spec2Model ----
(***************************************************************************)
(* Model of the asynchronous file-processing pipeline of the upload API:   *)
(* the module-level queue and counter of services/fileProcessing.js        *)
(* (processFile, processNext, processFileInternal and the type analyzers)  *)
(* and the background-processing part of POST /api/upload that feeds it    *)
(* and reconciles the settled handle into the file record; and the routes  *)
(* of routes/upload.js behind requireAuth (list, get info, upload, update, *)
(* delete, download, process, queue status) acting on the file records.    *)
(*                                                                         *)
(* One action is one run-to-completion task of the JavaScript event loop:  *)
(* the synchronous part of a handler plus the promise reactions it makes   *)
(* runnable.  `await processFileInternal(...)` in processNext is the one   *)
(* suspension point of a job; its continuation is the action               *)
(* AnalyzerDone.                                                           *)
(***************************************************************************)
EXTENDS Integers, Sequences, FiniteSets, TLC

\* ------------------------------------------------------------------ bounds
\* Number of uploads accepted in one run of the model.
MaxJobs == 5

\* Number of direct calls of processFile in one run of the media-type model.
MaxTypedJobs == 2

\* Number of uploads that pass validation in one run of the routes model.
MaxRouteUploads == 1

\* Number of accepted PUT, DELETE and POST /:fileId/process requests in one
\* run of the routes model.
MaxWrites == 2
MaxTicks == 2
MaxRacedJobs == 4

\* Number of sampled rows of a CSV file in the column-type model (processCSV
\* samples at most five).
MaxCells == 3

\* ------------------------------------------------------- program constants
MAX_CONCURRENT_JOBS == 3

JobIds == 1..MaxJobs

\* Declared media types.  The first eight are the cases of the switch in
\* processFileInternal; "application/zip" stands for every other value.
ImageTypes == {"image/jpeg", "image/png", "image/gif"}
ExcelTypes == {"application/vnd.openxmlformats-officedocument.spreadsheetml.sheet",
               "application/vnd.ms-excel"}
Mimetypes == ImageTypes \cup ExcelTypes \cup
             {"text/csv", "application/pdf", "text/plain", "application/zip"}

\* The media types with a case of their own in the switch.
SupportedTypes ==
    ImageTypes \cup ExcelTypes \cup {"text/csv", "application/pdf", "text/plain"}

\* What the bytes of the upload are to a decoder: well-formed, or broken in
\* one of two ways that make the decoding library raise different messages.
Contents == {"valid", "badHeader", "truncated"}

\* The value of a file record's processingResult before processing.
null == [isNull |-> TRUE]

VARIABLES
    processingQueue,   \* backlog: sequence of job ids (the queue entries)
    currentJobs,       \* the active-job counter
    timers,            \* number of pending setTimeout(processNext, 100)
    running,           \* jobs whose processNext is suspended at the await
    nextId,            \* next fresh file id (uuidv4)
    fileData,          \* job id -> the request passed to processFile
    startTime,         \* job id -> startTime local of processFileInternal
    handle,            \* job id -> state of the promise of processFile
    dispatched,        \* job id -> number of times shifted off the backlog
    startOrder,        \* the job ids in the order they were shifted
    depthAtPush,       \* job id -> backlog length right after its push
    settled,           \* job id -> number of resolve/reject calls made
    log,               \* set of entries written through logger
    uploadedFiles,     \* the file records of routes/upload.js
    disk,              \* paths under uploads/ that saveFile wrote and nobody unlinked
    uploads,           \* POST / handlers suspended at an await
    deleting,          \* DELETE handlers suspended at `await fs.unlink`
    deleted,           \* ids whose DELETE was answered 200
    processTimers,     \* pending 2 s timers of POST /:fileId/process, in arming order
    uploadsBegun,      \* number of uploads that passed validateFile
    writes,            \* number of accepted PUT, DELETE and process requests
    rateLimitStore,    \* identifier -> the timestamps kept for it (instant -> how many)
    now,               \* Date.now()
    reached            \* instant -> requests of that instant the limiters let through

routeVars == <<disk, uploads, deleting, deleted, processTimers, uploadsBegun, writes>>
rateVars == <<rateLimitStore, now, reached>>

vars == <<processingQueue, currentJobs, timers, running, nextId, fileData,
          startTime, handle, dispatched, startOrder, depthAtPush, settled, log,
          uploadedFiles, disk, uploads, deleting, deleted, processTimers,
          uploadsBegun, writes, rateLimitStore, now, reached>>

\* ------------------------------------------------------- the type analyzers
\* An analyzer call either returns a value or throws an Error with a message:
\* [threw |-> FALSE, value |-> v] or [threw |-> TRUE, message |-> m].

\* `${prefix} processing failed: ${error.message}`, error being what the
\* decoding library raises for these bytes.
FailedMessage(prefix, content) ==
    CASE prefix = "Image" /\ content = "badHeader" ->
             "Image processing failed: unsupported format"
      [] prefix = "Image" /\ content # "badHeader" ->
             "Image processing failed: unexpected end of data"
      [] prefix = "CSV" /\ content = "badHeader" ->
             "CSV processing failed: unsupported format"
      [] prefix = "CSV" /\ content # "badHeader" ->
             "CSV processing failed: unexpected end of data"
      [] prefix = "Excel" /\ content = "badHeader" ->
             "Excel processing failed: unsupported format"
      [] OTHER ->
             "Excel processing failed: unexpected end of data"

processImage(fd) ==
    IF fd.content = "valid"
    THEN [threw |-> FALSE,
          value |-> [imageInfo        |-> "metadata",
                     thumbnailCreated |-> TRUE,
                     thumbnailPath    |-> <<"/uploads/thumbnails/thumb_", fd.id>>,
                     fileAnalysis     |-> "aspectRatio,megapixels,estimatedColors"]]
    ELSE [threw |-> TRUE,
          message |-> FailedMessage("Image", fd.content)]

\* ------------------------------------------------------ analyzeCSVColumns
\* The cells of the model, and what the tests of analyzeCSVColumns make of
\* them:  v && v.trim(),  !isNaN(v) && !isNaN(parseFloat(v)),
\* /\S+@\S+\.\S+/.test(v),  !isNaN(Date.parse(v)).
Cells == {"", "  ", "42", "2024-01-15", "a@b.co", "hello"}
IsBlank(v) == v \in {"", "  "}
IsNumeric(v) == v = "42"
IsEmail(v) == v = "a@b.co"
IsDate(v) == v \in {"42", "2024-01-15"}

\* The rows csv-parser delivers for a file the model says nothing more
\* about.
DefaultRows == << [value |-> "hello", id |-> "42"] >>
SampleRows(fd) == IF "rows" \in DOMAIN fd THEN fd.rows ELSE DefaultRows

\* sampleRows.map(row => row[column]).filter(v => v && v.trim())
ValuesOf(sampleRows, column) ==
    SelectSeq([i \in 1..Len(sampleRows) |-> sampleRows[i][column]],
              LAMBDA v : ~IsBlank(v))

\* The if-chain with the date test first.
columnTypeDateFirst(values) ==
    IF Len(values) = 0 THEN "empty"
    ELSE LET hasNumbers == \A i \in 1..Len(values) : IsNumeric(values[i])
             hasEmails  == \E i \in 1..Len(values) : IsEmail(values[i])
             hasDates   == \E i \in 1..Len(values) : IsDate(values[i])
         IN  IF hasDates THEN "date"
             ELSE IF hasNumbers THEN "number"
             ELSE IF hasEmails THEN "email"
             ELSE "text"

\* The body of the forEach: the type of one column from its values.
columnType(values) ==
    IF Len(values) = 0 THEN "empty"
    ELSE LET hasNumbers == \A i \in 1..Len(values) : IsNumeric(values[i])
             hasEmails  == \E i \in 1..Len(values) : IsEmail(values[i])
             hasDates   == \E i \in 1..Len(values) : IsDate(values[i])
         IN  IF hasNumbers THEN "number"
             ELSE IF hasEmails THEN "email"
             ELSE IF hasDates THEN "date"
             ELSE "text"

analyzeCSVColumns(sampleRows) ==
    IF Len(sampleRows) = 0 THEN <<>>
    ELSE [column \in DOMAIN sampleRows[1] |->
             columnType(ValuesOf(sampleRows, column))]

processCSV(fd) ==
    IF fd.content = "valid"
    THEN [threw |-> FALSE,
          value |-> [csvAnalysis |-> [totalRows          |-> "rowCount",
                                      columns            |-> "headers",
                                      columnCount        |-> "headers.length",
                                      sampleData         |-> "rows.slice(0, 3)",
                                      estimatedDataTypes |->
                                          analyzeCSVColumns(SampleRows(fd))],
                     fileStats   |-> [size |-> fd.size, encoding |-> "UTF-8"]]]
    ELSE [threw |-> TRUE,
          message |-> FailedMessage("CSV", fd.content)]

processExcel(fd) ==
    IF fd.content = "valid"
    THEN [threw |-> FALSE,
          value |-> [excelAnalysis |->
                         [totalSheets  |-> 1,
                          sheets       |-> << [name         |-> "Sheet1",
                                               rowCount     |-> "jsonData.length",
                                               columnCount  |-> "max row length",
                                               hasHeaders   |-> TRUE,
                                               sampleData   |-> "jsonData.slice(0, 3)"] >>,
                          workbookInfo |-> [creator |-> "Unknown",
                                            lastModifiedBy |-> "Unknown"]],
                     fileStats     |-> [size |-> fd.size,
                                        format |-> IF fd.mimetype = "application/vnd.ms-excel"
                                                   THEN "XLS" ELSE "XLSX"]]]
    ELSE [threw |-> TRUE,
          message |-> FailedMessage("Excel", fd.content)]

\* processPDF and processText only search and split the bytes: no input makes
\* them throw.
processPDF(fd) ==
    [threw |-> FALSE,
     value |-> [pdfAnalysis       |-> [fileSize |-> fd.size],
                extractedMetadata |-> [producer |-> "Mock PDF Processor v1.0"]]]

processText(fd) ==
    [threw |-> FALSE,
     value |-> [textAnalysis |-> "lineCount,wordCount,characterCount,preview",
                fileStats    |-> [size |-> fd.size]]]

\* ------------------------------------------------------------ wall clock
\* Date.now() and new Date() are read at three events of a job's life.  No
\* code path compares timestamps, so an instant is named by the event at
\* which it was read and a duration by its two ends.
TimeOf(event, id) == [at |-> event, job |-> id]
Elapsed(start, end) == [from |-> start, to |-> end]

\* -------------------------------------------------- processFileInternal
\* The switch with the 'image/gif' label missing.
AnalyzerForNoGif(mimetype) ==
    CASE mimetype \in {"image/jpeg", "image/png"} -> "image"
      [] mimetype = "text/csv" -> "csv"
      [] mimetype = "application/pdf" -> "pdf"
      [] mimetype \in {"application/vnd.openxmlformats-officedocument.spreadsheetml.sheet",
                       "application/vnd.ms-excel"} -> "excel"
      [] mimetype = "text/plain" -> "text"
      [] OTHER -> "default"

\* The case of the switch a declared media type selects.
AnalyzerFor(mimetype) ==
    CASE mimetype \in {"image/jpeg", "image/png", "image/gif"} -> "image"
      [] mimetype = "text/csv" -> "csv"
      [] mimetype = "application/pdf" -> "pdf"
      [] mimetype \in {"application/vnd.openxmlformats-officedocument.spreadsheetml.sheet",
                       "application/vnd.ms-excel"} -> "excel"
      [] mimetype = "text/plain" -> "text"
      [] OTHER -> "default"

\* The switch with a default case that throws for an unlisted media type.
RunAnalyzerStrict(fd) ==
    CASE AnalyzerFor(fd.mimetype) = "image" -> processImage(fd)
      [] AnalyzerFor(fd.mimetype) = "csv"   -> processCSV(fd)
      [] AnalyzerFor(fd.mimetype) = "pdf"   -> processPDF(fd)
      [] AnalyzerFor(fd.mimetype) = "excel" -> processExcel(fd)
      [] AnalyzerFor(fd.mimetype) = "text"  -> processText(fd)
      [] OTHER -> [threw |-> TRUE, message |-> "Unsupported file type"]

\* The body of the switch: the analyzer's outcome, or the literal of the
\* default case.
RunAnalyzer(fd) ==
    CASE AnalyzerFor(fd.mimetype) = "image" -> processImage(fd)
      [] AnalyzerFor(fd.mimetype) = "csv"   -> processCSV(fd)
      [] AnalyzerFor(fd.mimetype) = "pdf"   -> processPDF(fd)
      [] AnalyzerFor(fd.mimetype) = "excel" -> processExcel(fd)
      [] AnalyzerFor(fd.mimetype) = "text"  -> processText(fd)
      [] OTHER ->
           [threw |-> FALSE,
            value |-> [status   |-> "completed",
                       message  |-> "File uploaded successfully but no specific processing available",
                       fileInfo |-> [size |-> fd.size, mimetype |-> fd.mimetype]]]

\* The catch block forwarding error.message to the caller.
ErrorResultLeaky(error, start, end) ==
    [status             |-> "error",
     error              |-> "Processing failed",
     message            |-> error,
     endTime            |-> end,
     processingDuration |-> Elapsed(start, end)]

\* The object the catch block of processFileInternal returns.
ErrorResult(error, start, end) ==
    [status             |-> "error",
     error              |-> "Processing failed",
     message            |-> "The file could not be processed successfully",
     endTime            |-> end,
     processingDuration |-> Elapsed(start, end)]

\* The object the try block returns: processingResult was REASSIGNED to the
\* analyzer's value (the first object, {startTime, status:'processing'}, is
\* dropped), then endTime, processingDuration and status are set on it.
CompletedResult(value, start, end) ==
    [endTime |-> end, processingDuration |-> Elapsed(start, end), status |-> "completed"]
        @@ value

\* processFileInternal whose catch block logs and rethrows.
processFileInternalRethrows(fd, start, end) ==
    LET a == RunAnalyzer(fd)
    IN  IF a.threw
        THEN [threw |-> TRUE, message |-> a.message]
        ELSE [threw |-> FALSE, value |-> CompletedResult(a.value, start, end)]

\* processFileInternal(fileData) started at `start` and finishing at `end`:
\* what the call does to its caller.  Both paths return; nothing is rethrown.
processFileInternal(fd, start, end) ==
    LET a == RunAnalyzer(fd)
    IN  IF a.threw
        THEN [threw |-> FALSE, value |-> ErrorResult(a.message, start, end)]
        ELSE [threw |-> FALSE, value |-> CompletedResult(a.value, start, end)]

\* What processFileInternal writes through logger before the analyzer runs...
StartLog(fd) ==
    [text |-> "Starting file processing", fileId |-> fd.id,
     meta |-> [mimetype |-> fd.mimetype, size |-> fd.size]]

\* ... and after it ended.
EndLog(fd, start, end) ==
    LET a == RunAnalyzer(fd)
    IN  IF a.threw
        THEN [text |-> "File processing failed", fileId |-> fd.id,
              meta |-> [error |-> a.message, duration |-> Elapsed(start, end)]]
        ELSE [text |-> "File processing completed", fileId |-> fd.id,
              meta |-> [duration |-> Elapsed(start, end), status |-> "completed"]]

\* ------------------------------------------------ the queue and dispatcher
\* push written as unshift: the entry goes to the front.
pushFront(q, entry) == <<entry>> \o q

\* processingQueue.push(entry)
push(q, entry) == Append(q, entry)

\* shift() written as pop(): the newest entry is taken.
shiftNewest(q) == [job |-> q[Len(q)], rest |-> SubSeq(q, 1, Len(q) - 1)]

\* shift() written as a read of element 0: the entry stays in the backlog.
shiftKeeps(q) == [job |-> Head(q), rest |-> q]

\* processingQueue.shift(): the entry removed and the queue left behind.
shift(q) == [job |-> Head(q), rest |-> Tail(q)]

\* The guard with > for >=.
CanStartOffByOne(q, c) == ~(c > MAX_CONCURRENT_JOBS \/ Len(q) = 0)

\* The guard of processNext: FALSE is the early return.
CanStart(q, c) == ~(c >= MAX_CONCURRENT_JOBS \/ Len(q) = 0)

\* currentJobs-- made twice, in the catch block and again in the finally block.
ReleasedTwice(c) == c - 2

\* currentJobs-- and setTimeout(processNext, 100) of the finally block.
Released(c) == c - 1

\* The finally block without its setTimeout.
RearmedNever(t) == t

Rearmed(t) == t + 1

\* A promise whose resolve and reject are never called: the job was dropped.
SettleNever(h, outcome) == h

\* A promise settles once: resolve/reject on a settled promise do nothing.
Settle(h, outcome) == IF h.state = "pending" THEN outcome ELSE h

\* job.resolve(result) or job.reject(error), by how the awaited call ended.
Outcome(r) ==
    IF r.threw THEN [state |-> "rejected", error |-> r.message]
    ELSE [state |-> "resolved", value |-> r.value]

\* processNext() up to its await, on backlog q with the requests fds: the
\* early return, or shift + currentJobs++ + the synchronous start of
\* processFileInternal.
processNext(q, fds) ==
    IF CanStart(q, currentJobs)
    THEN LET job == shift(q).job
         IN  /\ processingQueue' = shift(q).rest
             /\ currentJobs' = currentJobs + 1
             /\ running' = running \cup {job}
             /\ startTime' = (job :> TimeOf("start", job)) @@ startTime
             /\ dispatched' = [dispatched EXCEPT ![job] = @ + 1]
             /\ startOrder' = Append(startOrder, job)
             /\ log' = log \cup {StartLog(fds[job])}
    ELSE /\ processingQueue' = q
         /\ UNCHANGED <<currentJobs, running, startTime, dispatched,
                        startOrder, log>>

\* ------------------------------------------------------ middleware/auth.js
Users == {"user1", "user2", "admin"}
RoleOf(userId) == IF userId = "admin" THEN "admin" ELSE "user"

\* What the Authorization header of a request amounts to: a Bearer token
\* that jwt.verify accepts, with its payload, or nothing it accepts (no
\* header, no "Bearer " prefix, a bad signature, an expired token).
NoToken == [valid |-> FALSE, userId |-> "", role |-> ""]
UserToken(userId) == [valid |-> TRUE, userId |-> userId, role |-> RoleOf(userId)]
Tokens == {UserToken(u) : u \in Users} \cup {NoToken}

\* requireAuth that lets every request through.
requireAuthOpen(token) == TRUE

\* requireAuth: TRUE is next(), FALSE is the 401 response.
requireAuth(token) == token.valid

\* requireAdmin that only asks for an authenticated user.
requireAdminAnyUser(token) == token.valid

\* requireAdmin: TRUE is next(), FALSE is the 403 response.
requireAdmin(token) == token.valid /\ token.role = "admin"

\* -------------------------------------------- middleware/fileValidation.js
\* ALLOWED_MIME_TYPES, sizes in bytes.
ALLOWED_MIME_TYPES ==
    [m \in SupportedTypes |->
        CASE m = "image/jpeg" -> [extensions |-> {".jpg", ".jpeg"}, maxSize |-> 5 * 1024 * 1024]
          [] m = "image/png" -> [extensions |-> {".png"}, maxSize |-> 5 * 1024 * 1024]
          [] m = "image/gif" -> [extensions |-> {".gif"}, maxSize |-> 2 * 1024 * 1024]
          [] m = "application/pdf" -> [extensions |-> {".pdf"}, maxSize |-> 10 * 1024 * 1024]
          [] m = "text/csv" -> [extensions |-> {".csv"}, maxSize |-> 1 * 1024 * 1024]
          [] m = "text/plain" -> [extensions |-> {".txt"}, maxSize |-> 512 * 1024]
          [] m = "application/vnd.openxmlformats-officedocument.spreadsheetml.sheet"
                 -> [extensions |-> {".xlsx"}, maxSize |-> 5 * 1024 * 1024]
          [] OTHER -> [extensions |-> {".xls"}, maxSize |-> 5 * 1024 * 1024]]

DANGEROUS_EXTENSIONS ==
    {".exe", ".bat", ".cmd", ".com", ".pif", ".scr", ".vbs", ".js", ".jar",
     ".app", ".deb", ".pkg", ".rpm", ".dmg", ".iso", ".bin", ".run", ".sh"}

\* The media types validateFileHeader has signatures for.
SignedTypes == ImageTypes \cup {"application/pdf"}

\* validateFileHeader(buffer, mimetype); file.signature says whether the
\* bytes start with a signature of the declared type.
validateFileHeader(file) ==
    IF file.mimetype \notin SignedTypes THEN TRUE ELSE file.signature

\* validateFile(file).errors; isValid is errors = {}.
validateFile(file) ==
    IF ~file.present \/ file.size = 0
    THEN {"empty"}
    ELSE (IF file.size > 20 * 1024 * 1024 THEN {"size"} ELSE {}) \cup
         (IF file.mimetype \notin DOMAIN ALLOWED_MIME_TYPES THEN {"type"}
          ELSE (IF file.size > ALLOWED_MIME_TYPES[file.mimetype].maxSize
                THEN {"typeSize"} ELSE {}) \cup
               (IF file.ext \notin ALLOWED_MIME_TYPES[file.mimetype].extensions
                THEN {"extension"} ELSE {})) \cup
         (IF file.ext \in DANGEROUS_EXTENSIONS THEN {"dangerous"} ELSE {}) \cup
         (IF ~validateFileHeader(file) THEN {"header"} ELSE {})

\* The multer stage of POST /: 0 when the request goes on to the handler,
\* else the status the error handler answers.  The fileFilter passes a plain
\* Error for a dangerous extension (errorHandler's default branch: 500); the
\* fileSize limit raises a MulterError (400).
upload(file) ==
    IF ~file.present THEN 0
    ELSE IF file.ext \in DANGEROUS_EXTENSIONS THEN 500
    ELSE IF file.size > 20 * 1024 * 1024 THEN 400
    ELSE 0

\* scanForVirus(file).clean; file.infected says whether the bytes contain
\* one of the four patterns.
scanForVirus(file) == ~file.infected

\* ------------------------------------------------------- routes/upload.js
\* uploadedFiles.findIndex(f => f.id === id): 0-based, -1 when absent.
findIndex(files, id) ==
    IF \E i \in 1..Len(files) : files[i].id = id
    THEN (CHOOSE i \in 1..Len(files) :
            /\ files[i].id = id
            /\ \A k \in 1..(i - 1) : files[k].id # id) - 1
    ELSE -1

\* The .then callback that puts a record back when it finds none.
OnResolvedRecreates(files, id, result, date) ==
    LET fileIndex == findIndex(files, id)
    IN  IF fileIndex # -1
        THEN [files EXCEPT ![fileIndex + 1] =
                 [status |-> "processed", processingResult |-> result,
                  processedDate |-> date] @@ @]
        ELSE Append(files, [id |-> id, status |-> "processed",
                            processingResult |-> result, processedDate |-> date])

\* The .then callback writing to the newest record instead of the one found.
OnResolvedNewest(files, id, result, date) ==
    IF Len(files) > 0
    THEN [files EXCEPT ![Len(files)] =
             [status |-> "processed", processingResult |-> result,
              processedDate |-> date] @@ @]
    ELSE files

\* The .then callback of POST /: mark the record processed.
OnResolved(files, id, result, date) ==
    LET fileIndex == findIndex(files, id)
    IN  IF fileIndex # -1
        THEN [files EXCEPT ![fileIndex + 1] =
                 [status |-> "processed", processingResult |-> result,
                  processedDate |-> date] @@ @]
        ELSE files

\* The .catch callback of POST /: mark the record failed.
OnRejected(files, id) ==
    LET fileIndex == findIndex(files, id)
    IN  IF fileIndex # -1
        THEN [files EXCEPT ![fileIndex + 1] =
                 [status |-> "error",
                  processingResult |->
                      [error |-> "Processing failed",
                       message |-> "File processing encountered an error"]] @@ @]
        ELSE files

\* The reaction of the POST / handler to the handle's settlement.
Reconcile(files, id, h, date) ==
    IF h.state = "resolved" THEN OnResolved(files, id, h.value, date)
    ELSE OnRejected(files, id)

\* downloadUrl: null.
NoUrl == ""

\* The three records the module starts with ("file-00N" is id -N here;
\* uploaded files get 1, 2, ... for their uuid).
SeedFiles ==
    << [id |-> -1, originalName |-> "sample-document.pdf",
        mimetype |-> "application/pdf", uploadedBy |-> "user1",
        status |-> "processed",
        processingResult |-> [pages |-> 15, textExtracted |-> TRUE],
        downloadUrl |-> "/uploads/sample-document-123.pdf",
        publicAccess |-> FALSE],
       [id |-> -2, originalName |-> "company-data.csv",
        mimetype |-> "text/csv", uploadedBy |-> "admin",
        status |-> "processing",
        processingResult |-> null,
        downloadUrl |-> "/uploads/company-data-456.csv",
        publicAccess |-> TRUE],
       [id |-> -3, originalName |-> "corrupted-image.jpg",
        mimetype |-> "image/jpeg", uploadedBy |-> "user2",
        status |-> "error",
        processingResult |-> [error |-> "Corrupted file header"],
        downloadUrl |-> NoUrl,
        publicAccess |-> FALSE] >>

\* ------------------------------------------------------------------ inputs
\* An upload that passed validation: declared type, bytes, size.
AllUploads == [mimetype : Mimetypes, content : Contents, size : {2048}]

\* The uploads of the scheduling specification: a text file and images
\* broken in both ways.
SchedUploads ==
    { u \in AllUploads :
        \/ u.mimetype = "image/png" /\ u.content # "valid"
        \/ u.mimetype = "text/plain" /\ u.content = "valid" }

\* ----------------------------------------------------------------- actions
Init ==
    /\ processingQueue = <<>>
    /\ currentJobs = 0
    /\ timers = 0
    /\ running = {}
    /\ nextId = 1
    /\ fileData = <<>>
    /\ startTime = <<>>
    /\ handle = <<>>
    /\ dispatched = [j \in JobIds |-> 0]
    /\ startOrder = <<>>
    /\ depthAtPush = <<>>
    /\ settled = [j \in JobIds |-> 0]
    /\ log = {}
    /\ uploadedFiles = SeedFiles
    /\ disk = {}
    /\ uploads = <<>>
    /\ deleting = <<>>
    /\ deleted = {}
    /\ processTimers = <<>>
    /\ uploadsBegun = 0
    /\ writes = 0
    /\ rateLimitStore = <<>>
    /\ now = 0
    /\ reached = <<>>

\* The record POST / creates for an upload; it is the fileData of the job.
NewFile(id, u) ==
    [id |-> id, mimetype |-> u.mimetype, content |-> u.content, size |-> u.size]

\* FileProcessingService.processFile(fileData): the executor pushes the entry
\* and calls processNext; the caller gets the pending promise.
processFile(fd) ==
    LET fds == fileData @@ (fd.id :> fd)
        q == push(processingQueue, fd.id)
    IN  /\ fileData' = fds
        /\ handle' = handle @@ (fd.id :> [state |-> "pending"])
        /\ depthAtPush' = depthAtPush @@ (fd.id :> Len(q))
        /\ processNext(q, fds)

\* The record POST / pushes for the file of a request, saved at `path`.
FileRecord(id, userId, originalname, mimetype, path) ==
    [id |-> id, originalName |-> originalname, mimetype |-> mimetype,
     uploadedBy |-> userId, status |-> "uploaded", processingResult |-> null,
     downloadUrl |-> "/uploads/secureFilename", publicAccess |-> FALSE,
     filePath |-> path]

\* POST /api/upload by user1 with a file that passes validation and the
\* virus scan, its awaits taken in one step: the file is saved, the record
\* is created and handed to processFile.
PostUpload(u) ==
    /\ nextId <= MaxJobs
    /\ nextId' = nextId + 1
    /\ disk' = disk \cup {nextId}
    /\ uploadedFiles' = Append(uploadedFiles,
           FileRecord(nextId, "user1", "upload", u.mimetype, nextId))
    /\ processFile(NewFile(nextId, u))
    /\ UNCHANGED <<rateVars, timers, settled, uploads, deleting, deleted, processTimers,
                   uploadsBegun, writes>>

\* processFile called on a request of any declared media type, with no file
\* record behind it.
ServiceCall(u) ==
    /\ nextId <= MaxTypedJobs
    /\ nextId' = nextId + 1
    /\ processFile(NewFile(nextId, u))
    /\ UNCHANGED <<rateVars, timers, settled, uploadedFiles, routeVars>>

\* The entry kept in one variable shared by all processNext calls: the
\* continuation reads the request submitted last.
ResultForLatest(j) ==
    processFileInternal(fileData[nextId - 1], startTime[j], TimeOf("end", j))

\* `await processFileInternal(job.fileData)` of job j, ended.
ResultFor(j) ==
    processFileInternal(fileData[j], startTime[j], TimeOf("end", j))

\* The continuation of processNext after `await processFileInternal(...)`
\* for job j: settle the handle, currentJobs--, arm the timer; then the
\* reaction of POST / runs on the settled handle.
AnalyzerDone(j) ==
    LET end == TimeOf("end", j)
        h == Settle(handle[j], Outcome(ResultFor(j)))
    IN  /\ j \in running
        /\ running' = running \ {j}
        /\ handle' = [handle EXCEPT ![j] = h]
        /\ settled' = [settled EXCEPT ![j] = @ + 1]
        /\ currentJobs' = Released(currentJobs)
        /\ timers' = Rearmed(timers)
        /\ log' = log \cup {EndLog(fileData[j], startTime[j], end)}
        /\ uploadedFiles' = Reconcile(uploadedFiles, j, h, TimeOf("processed", j))
        /\ UNCHANGED <<rateVars, processingQueue, nextId, fileData, startTime, dispatched,
                       startOrder, depthAtPush, routeVars>>

\* A timer armed by a finished job fires: processNext().
TimerFire ==
    /\ timers > 0
    /\ timers' = timers - 1
    /\ processNext(processingQueue, fileData)
    /\ UNCHANGED <<rateVars, nextId, fileData, handle, depthAtPush, settled, uploadedFiles,
                   routeVars>>

Next ==
    \/ \E u \in SchedUploads : PostUpload(u)
    \/ \E j \in JobIds : AnalyzerDone(j)
    \/ TimerFire

Spec == Init /\ [][Next]_vars

\* The uploads of the fair specification: a text file and a broken image.
FairUploads == {u \in SchedUploads : u.content # "truncated"}

NextFair ==
    \/ \E u \in FairUploads : PostUpload(u)
    \/ \E j \in JobIds : AnalyzerDone(j)
    \/ TimerFire

\* Analyzer invocations terminate and armed timers fire: while a job is
\* executing some job finishes, and while a timer is armed one fires.
FairSpec ==
    /\ Init /\ [][NextFair]_vars
    /\ WF_vars(\E j \in JobIds : AnalyzerDone(j))
    /\ WF_vars(TimerFire)

\* The service called directly with requests of every declared media type.
NextTypes ==
    \/ \E u \in AllUploads : ServiceCall(u)
    \/ \E j \in JobIds : AnalyzerDone(j)
    \/ TimerFire

SpecTypes == Init /\ [][NextTypes]_vars

\* ------------------------------------------------------ the CSV columns
\* The sampled rows of a CSV file with the columns `value` and `id`: the
\* cells of `value` are any of Cells, those of `id` are numbers.
SampledColumns == UNION {[1..n -> Cells] : n \in 0..MaxCells}
RowsOf(cells) == [i \in 1..Len(cells) |-> [value |-> cells[i], id |-> "42"]]

\* processFile called once on a CSV file whose sampled rows are RowsOf(cells).
CsvCall(cells) ==
    /\ nextId = 1
    /\ nextId' = nextId + 1
    /\ processFile([id |-> nextId, mimetype |-> "text/csv",
                    content |-> "valid", size |-> 2048,
                    rows |-> RowsOf(cells)])
    /\ UNCHANGED <<rateVars, timers, settled, uploadedFiles, routeVars>>

NextCsv ==
    \/ \E cells \in SampledColumns : CsvCall(cells)
    \/ \E j \in JobIds : AnalyzerDone(j)
    \/ TimerFire

SpecCsv == Init /\ [][NextCsv]_vars

\* ============================================================ the routes
\* A handler is described by the status it answers in the current state and
\* by what it does to the state.  Status 0 stands for "no response yet": the
\* handler goes on past an await.

\* ---------------------------------------------------------------- inputs
\* The file part of a POST / request.  ext is
\* path.extname(originalname).toLowerCase(); signature and infected say
\* whether the bytes start with a signature of the declared type and whether
\* they contain a pattern of scanForVirus.
NoFile == [present |-> FALSE]
TextFile ==
    [present |-> TRUE, originalname |-> "notes.txt", ext |-> ".txt",
     mimetype |-> "text/plain", size |-> 2048, content |-> "valid",
     signature |-> FALSE, infected |-> FALSE]
GoodFiles ==
    { TextFile,
      [TextFile EXCEPT !.originalname = "photo.png", !.ext = ".png",
                       !.mimetype = "image/png", !.content = "truncated",
                       !.signature = TRUE] }
BadFiles ==
    { NoFile,
      [TextFile EXCEPT !.size = 0],
      [TextFile EXCEPT !.size = 512 * 1024 + 1],
      [TextFile EXCEPT !.originalname = "notes.csv", !.ext = ".csv"],
      [TextFile EXCEPT !.originalname = "archive.zip", !.ext = ".zip",
                       !.mimetype = "application/zip"],
      [TextFile EXCEPT !.originalname = "photo.png", !.ext = ".png",
                       !.mimetype = "image/png"],
      [TextFile EXCEPT !.infected = TRUE],
      [TextFile EXCEPT !.originalname = "run.sh", !.ext = ".sh"],
      [TextFile EXCEPT !.size = 20 * 1024 * 1024 + 1] }
RouteFiles == GoodFiles \cup BadFiles

\* The :fileId of a request: a seed record, an uploaded file, or an id no
\* record ever has.
UnknownId == 0
RouteIds == {-1, -2, -3, UnknownId} \cup (1..MaxRouteUploads)

\* A name of 300 characters, and its first 255.
LongName == "a name of 300 characters"
LongName255 == "the first 255 characters of the name of 300 characters"

\* The JSON body of a PUT: key -> value with its typeof.
Bool(b) == [type |-> "boolean", bool |-> b]
Str(t) == [type |-> "string", text |-> t]
ValueOf(v) == IF v.type = "boolean" THEN v.bool ELSE v.text
Bodies ==
    { <<>>,
      [publicAccess |-> Bool(TRUE)],
      [publicAccess |-> Bool(FALSE)],
      [publicAccess |-> Str("true")],
      [originalName |-> Str(" renamed.pdf ")],
      [originalName |-> Str("  ")],
      [originalName |-> Str(LongName)],
      [originalName |-> Bool(TRUE)],
      [status |-> Str("processed")],
      [publicAccess |-> Bool(TRUE), originalName |-> Str(" renamed.pdf ")],
      [publicAccess |-> Bool(TRUE), uploadedBy |-> Str("user2")] }

\* String.prototype.trim and substring(0, 255) on the names above.
trim(t) ==
    CASE t = " renamed.pdf " -> "renamed.pdf"
      [] t = "  " -> ""
      [] OTHER -> t
substring255(t) == IF t = LongName THEN LongName255 ELSE t

\* ------------------------------------------------------- access control
Exists(files, id) == findIndex(files, id) # -1
Find(files, id) == files[findIndex(files, id) + 1]

\* The read check with `file.publicAccess` in place of `!file.publicAccess`.
CanReadFlipped(token, file) ==
    ~(file.publicAccess /\ token.userId # file.uploadedBy /\ token.role # "admin")

\* The check of GET /:fileId and GET /:fileId/download, negated: FALSE is 403.
CanRead(token, file) ==
    ~(~file.publicAccess /\ token.userId # file.uploadedBy /\ token.role # "admin")

\* The modify check that also lets anybody modify a public file.
CanModifyPublic(token, file) ==
    file.publicAccess \/ token.userId = file.uploadedBy \/ token.role = "admin"

\* The check of PUT, DELETE and POST /:fileId/process, negated: FALSE is 403.
CanModify(token, file) ==
    ~(file.uploadedBy # token.userId /\ token.role # "admin")

\* ------------------------------------------------ sanitizeProcessingResult
Without(r, keys) == [k \in DOMAIN r \ keys |-> r[k]]

SheetSummary(sheet) ==
    [name |-> sheet.name, rowCount |-> sheet.rowCount,
     columnCount |-> sheet.columnCount, hasHeaders |-> sheet.hasHeaders]

\* What sanitizeProcessingResult(result, isAdmin) leaves in the STORED
\* result: the copy is shallow, so the deletes on csvAnalysis and the
\* assignment to excelAnalysis.sheets act on the stored nested objects.
StoredAfterSanitize(result, isAdmin) ==
    IF result = null \/ isAdmin THEN result
    ELSE LET r1 == IF "csvAnalysis" \in DOMAIN result
                   THEN [result EXCEPT !.csvAnalysis =
                            Without(@, {"sampleData", "estimatedDataTypes"})]
                   ELSE result
         IN  IF "excelAnalysis" \in DOMAIN r1
             THEN [r1 EXCEPT !.excelAnalysis.sheets =
                      [i \in DOMAIN @ |-> SheetSummary(@[i])]]
             ELSE r1

\* What sanitizeProcessingResult(result, isAdmin) returns.
sanitizeProcessingResult(result, isAdmin) ==
    IF result = null \/ isAdmin THEN result
    ELSE Without(StoredAfterSanitize(result, isAdmin),
                 {"extractedText", "dataPreview", "sensitiveColumns",
                  "internalNotes", "stack", "processingServer"})

\* ------------------------------------------------------------ GET /
\* req.query.status: absent, or a status to filter on.
NoStatus == ""
StatusFilters == {NoStatus, "processed"}

\* filteredFiles: the records the listing keeps for the caller.  (A page
\* holds at least 20 entries by default, more than there are records here.)
ListFilter(files, token, publicOnly, status) ==
    SelectSeq(files,
              LAMBDA f : /\ IF publicOnly THEN f.publicAccess
                            ELSE IF token.role = "admin" THEN TRUE
                            ELSE f.uploadedBy = token.userId \/ f.publicAccess
                         /\ status # NoStatus => f.status = status)

ListStatus(token) == IF ~requireAuth(token) THEN 401 ELSE 200

\* The ids in the `files` array of the response.
ListBody(files, token, publicOnly, status) ==
    IF ListStatus(token) # 200 THEN {}
    ELSE LET kept == ListFilter(files, token, publicOnly, status)
         IN  {kept[i].id : i \in 1..Len(kept)}

\* The entries whose processingResult the response shows.
ShowsResult(token, f) ==
    f.publicAccess \/ token.role = "admin" \/ f.uploadedBy = token.userId

ListFiles(token, publicOnly, status) ==
    /\ uploadedFiles' =
         IF ListStatus(token) # 200 THEN uploadedFiles
         ELSE [i \in DOMAIN uploadedFiles |->
                 LET f == uploadedFiles[i]
                 IN  IF f.id \in ListBody(uploadedFiles, token, publicOnly, status)
                        /\ ShowsResult(token, f)
                     THEN [f EXCEPT !.processingResult =
                              StoredAfterSanitize(@, token.role = "admin")]
                     ELSE f]
    /\ UNCHANGED <<rateVars, processingQueue, currentJobs, timers, running, nextId, fileData,
                   startTime, handle, dispatched, startOrder, depthAtPush,
                   settled, log, routeVars>>

\* ------------------------------------------------------------ GET /:fileId
GetStatus(files, token, id) ==
    IF ~requireAuth(token) THEN 401
    ELSE IF ~Exists(files, id) THEN 404
    ELSE IF ~CanRead(token, Find(files, id)) THEN 403
    ELSE 200

GetFileInfo(token, id) ==
    /\ uploadedFiles' =
         IF GetStatus(uploadedFiles, token, id) # 200 THEN uploadedFiles
         ELSE [uploadedFiles EXCEPT ![findIndex(uploadedFiles, id) + 1].processingResult =
                  StoredAfterSanitize(@, token.role = "admin")]
    /\ UNCHANGED <<rateVars, processingQueue, currentJobs, timers, running, nextId, fileData,
                   startTime, handle, dispatched, startOrder, depthAtPush,
                   settled, log, routeVars>>

\* --------------------------------------------------- GET /:fileId/download
\* 302 is res.redirect(file.downloadUrl).
DownloadStatus(files, token, id) ==
    IF ~requireAuth(token) THEN 401
    ELSE IF ~Exists(files, id) THEN 404
    ELSE IF ~CanRead(token, Find(files, id)) THEN 403
    ELSE IF Find(files, id).downloadUrl # NoUrl THEN 302
    ELSE 404

Download(token, id) ==
    /\ DownloadStatus(uploadedFiles, token, id) \in {401, 403, 404, 302}
    /\ UNCHANGED vars

\* ------------------------------------------------- GET /system/queue-status
\* FileProcessingService.getQueueStatus() with the two counts swapped.
getQueueStatusSwapped ==
    [queueLength       |-> currentJobs,
     activeJobs        |-> Len(processingQueue),
     maxConcurrentJobs |-> MAX_CONCURRENT_JOBS]

\* FileProcessingService.getQueueStatus()
getQueueStatus ==
    [queueLength       |-> Len(processingQueue),
     activeJobs        |-> currentJobs,
     maxConcurrentJobs |-> MAX_CONCURRENT_JOBS]

QueueStatusStatus(token) ==
    IF ~requireAuth(token) THEN 401
    ELSE IF ~requireAdmin(token) THEN 403
    ELSE 200

CountStatus(files, st) == Cardinality({i \in 1..Len(files) : files[i].status = st})

\* The body of the response: nothing but the error for 401 and 403.
QueueStatusBody(token) ==
    IF QueueStatusStatus(token) # 200 THEN [error |-> QueueStatusStatus(token)]
    ELSE [queue |-> getQueueStatus,
          fileStats |-> [total      |-> Len(uploadedFiles),
                         uploaded   |-> CountStatus(uploadedFiles, "uploaded"),
                         processing |-> CountStatus(uploadedFiles, "processing"),
                         processed  |-> CountStatus(uploadedFiles, "processed"),
                         error      |-> CountStatus(uploadedFiles, "error")]]

QueueStatus(token) ==
    /\ QueueStatusStatus(token) \in {401, 403, 200}
    /\ UNCHANGED vars

\* ------------------------------------------- POST /auth/test-token
\* Registered on the router only when NODE_ENV is 'development', with no
\* middleware; otherwise no route matches and the application's 404 handler
\* answers.
Envs == {"development", "production"}
TestTokenStatus(env, token) == IF env = "development" THEN 200 ELSE 404

TestToken(env, token) ==
    /\ TestTokenStatus(env, token) \in {200, 404}
    /\ UNCHANGED vars

\* ------------------------------------------------------------ POST /
\* What is answered before the first await; 0: the handler goes on to the
\* virus scan.
UploadStatus(token, file) ==
    IF ~requireAuth(token) THEN 401
    ELSE IF upload(file) # 0 THEN upload(file)
    ELSE IF ~file.present THEN 400
    ELSE IF validateFile(file) # {} THEN 400
    ELSE 0

\* The request arrives: middleware, validateFile, and the call of
\* scanForVirus.
UploadRequest(token, file) ==
    IF UploadStatus(token, file) = 0
    THEN /\ uploadsBegun < MaxRouteUploads
         /\ uploadsBegun' = uploadsBegun + 1
         /\ uploads' = Append(uploads,
                [userId |-> token.userId, file |-> file, phase |-> "scanning",
                 path |-> uploadsBegun + 1])
         /\ UNCHANGED <<rateVars, processingQueue, currentJobs, timers, running, nextId,
                        fileData, startTime, handle, dispatched, startOrder,
                        depthAtPush, settled, log, uploadedFiles, disk,
                        deleting, deleted, processTimers, writes>>
    ELSE UNCHANGED vars

Remove(q, i) == SubSeq(q, 1, i - 1) \o SubSeq(q, i + 1, Len(q))

\* `await scanForVirus(req.file)` ended: 400 for a threat, else
\* generateSecureFilename and saveFile.
ScanStatus(file) == IF scanForVirus(file) THEN 0 ELSE 400

UploadScanned(i) ==
    /\ i \in 1..Len(uploads)
    /\ uploads[i].phase = "scanning"
    /\ IF ScanStatus(uploads[i].file) = 0
       THEN /\ uploads' = [uploads EXCEPT ![i].phase = "saving"]
            /\ disk' = disk \cup {uploads[i].path}
       ELSE /\ uploads' = Remove(uploads, i)
            /\ disk' = disk
    /\ UNCHANGED <<rateVars, processingQueue, currentJobs, timers, running, nextId,
                   fileData, startTime, handle, dispatched, startOrder,
                   depthAtPush, settled, log, uploadedFiles,
                   deleting, deleted, processTimers, uploadsBegun, writes>>

\* `await saveFile(...)` ended: the record is pushed and handed to
\* processFile; the response is 201.
UploadSaved(i) ==
    /\ i \in 1..Len(uploads)
    /\ uploads[i].phase = "saving"
    /\ nextId <= MaxJobs
    /\ uploads' = Remove(uploads, i)
    /\ nextId' = nextId + 1
    /\ uploadedFiles' = Append(uploadedFiles,
           FileRecord(nextId, uploads[i].userId, uploads[i].file.originalname,
                      uploads[i].file.mimetype, uploads[i].path))
    /\ processFile(NewFile(nextId, uploads[i].file))
    /\ UNCHANGED <<rateVars, timers, settled, disk, deleting, deleted, processTimers,
                   uploadsBegun, writes>>

\* ------------------------------------------------------------ PUT /:fileId
\* allowedFields with status added.
allowedFieldsWithStatus == {"publicAccess", "originalName", "status"}

allowedFields == {"publicAccess", "originalName"}

PutStatus(files, token, id, body) ==
    IF ~requireAuth(token) THEN 401
    ELSE IF ~Exists(files, id) THEN 404
    ELSE IF ~CanModify(token, Find(files, id)) THEN 403
    ELSE IF DOMAIN body \ allowedFields # {} THEN 400
    ELSE IF "publicAccess" \in DOMAIN body /\ body.publicAccess.type # "boolean" THEN 400
    ELSE IF "originalName" \in DOMAIN body
            /\ (body.originalName.type # "string" \/ trim(body.originalName.text) = "")
         THEN 400
    ELSE 200

\* The record after `Apply updates` and the lastModified assignment.
Updated(file, body, date) ==
    [k \in DOMAIN file \cup (DOMAIN body \cap allowedFields) \cup {"lastModified"} |->
        CASE k = "lastModified" -> date
          [] k = "originalName" /\ k \in DOMAIN body \cap allowedFields ->
                 substring255(trim(body[k].text))
          [] k # "originalName" /\ k \in DOMAIN body \cap allowedFields ->
                 ValueOf(body[k])
          [] OTHER -> file[k]]

UpdateFile(token, id, body) ==
    IF PutStatus(uploadedFiles, token, id, body) = 200
    THEN /\ writes < MaxWrites
         /\ writes' = writes + 1
         /\ uploadedFiles' =
              [uploadedFiles EXCEPT ![findIndex(uploadedFiles, id) + 1] =
                  Updated(@, body, TimeOf("modified", id))]
         /\ UNCHANGED <<rateVars, processingQueue, currentJobs, timers, running, nextId,
                        fileData, startTime, handle, dispatched, startOrder,
                        depthAtPush, settled, log, disk, uploads, deleting,
                        deleted, processTimers, uploadsBegun>>
    ELSE UNCHANGED vars

\* --------------------------------------------------------- DELETE /:fileId
\* What is answered before the first await; 0: the handler goes on.
DeleteStatus(files, token, id) ==
    IF ~requireAuth(token) THEN 401
    ELSE IF ~Exists(files, id) THEN 404
    ELSE IF ~CanModify(token, Find(files, id)) THEN 403
    ELSE 0

\* uploadedFiles.splice(fileIndex, 1): past the end it removes nothing.
splice(files, fileIndex) ==
    IF fileIndex + 1 \in 1..Len(files) THEN Remove(files, fileIndex + 1) ELSE files

\* Whether the handler awaits fs.unlink before its splice.
Unlinks(file) ==
    \/ "filePath" \in DOMAIN file
    \/ /\ file.processingResult # null
       /\ "thumbnailPath" \in DOMAIN file.processingResult

\* The request arrives.  fileIndex is computed here.  A record without files
\* on disk is spliced and answered 200 in this step; otherwise fs.unlink is
\* called and the handler is suspended at its await.
DeleteRequest(token, id) ==
    IF DeleteStatus(uploadedFiles, token, id) = 0
    THEN LET fileIndex == findIndex(uploadedFiles, id)
             file == uploadedFiles[fileIndex + 1]
         IN  /\ writes < MaxWrites
             /\ writes' = writes + 1
             /\ IF Unlinks(file)
                THEN /\ deleting' = Append(deleting, [id |-> id, fileIndex |-> fileIndex])
                     /\ disk' = IF "filePath" \in DOMAIN file
                                THEN disk \ {file.filePath} ELSE disk
                     /\ UNCHANGED <<uploadedFiles, deleted>>
                ELSE /\ uploadedFiles' = splice(uploadedFiles, fileIndex)
                     /\ deleted' = deleted \cup {id}
                     /\ UNCHANGED <<deleting, disk>>
             /\ UNCHANGED <<rateVars, processingQueue, currentJobs, timers, running, nextId,
                            fileData, startTime, handle, dispatched, startOrder,
                            depthAtPush, settled, log, uploads, processTimers,
                            uploadsBegun>>
    ELSE UNCHANGED vars

\* The awaits of a suspended DELETE ended: splice with the fileIndex computed
\* before them, and the 200 response.
DeleteFinish(i) ==
    /\ i \in 1..Len(deleting)
    /\ deleting' = Remove(deleting, i)
    /\ uploadedFiles' = splice(uploadedFiles, deleting[i].fileIndex)
    /\ deleted' = deleted \cup {deleting[i].id}
    /\ UNCHANGED <<rateVars, processingQueue, currentJobs, timers, running, nextId,
                   fileData, startTime, handle, dispatched, startOrder,
                   depthAtPush, settled, log, disk, uploads, processTimers,
                   uploadsBegun, writes>>

\* --------------------------------------------------- POST /:fileId/process
ProcessStatus(files, token, id) ==
    IF ~requireAuth(token) THEN 401
    ELSE IF ~Exists(files, id) THEN 404
    ELSE IF ~CanModify(token, Find(files, id)) THEN 403
    ELSE IF Find(files, id).status = "processing" THEN 409
    ELSE 200

ProcessRequest(token, id) ==
    IF ProcessStatus(uploadedFiles, token, id) = 200
    THEN /\ writes < MaxWrites
         /\ writes' = writes + 1
         /\ uploadedFiles' =
              [uploadedFiles EXCEPT ![findIndex(uploadedFiles, id) + 1] =
                  [@ EXCEPT !.status = "processing", !.processingResult = null]]
         /\ processTimers' = Append(processTimers, id)
         /\ UNCHANGED <<rateVars, processingQueue, currentJobs, timers, running, nextId,
                        fileData, startTime, handle, dispatched, startOrder,
                        depthAtPush, settled, log, disk, uploads, deleting,
                        deleted, uploadsBegun>>
    ELSE UNCHANGED vars

\* The 2 s timer of the oldest accepted process request fires: it writes to
\* the record object it captured, which may no longer be in uploadedFiles.
ProcessTimerFire ==
    /\ processTimers # <<>>
    /\ processTimers' = Tail(processTimers)
    /\ uploadedFiles' =
         LET id == Head(processTimers)
         IN  IF Exists(uploadedFiles, id)
             THEN [uploadedFiles EXCEPT ![findIndex(uploadedFiles, id) + 1] =
                      [@ EXCEPT !.status = "processed",
                                !.processingResult =
                                    [processedAt |-> TimeOf("reprocessed", id),
                                     success     |-> TRUE,
                                     details     |-> "File processed successfully"]]]
             ELSE uploadedFiles
    /\ UNCHANGED <<rateVars, processingQueue, currentJobs, timers, running, nextId,
                   fileData, startTime, handle, dispatched, startOrder,
                   depthAtPush, settled, log, disk, uploads, deleting, deleted,
                   uploadsBegun, writes>>

\* ------------------------------------------------------ the routes model
\* The access-control model: every route, called with and without a token
\* of each user on every record; the uploads are those that are rejected, so
\* the records are the three the module starts with.
NextRoutes ==
    \/ \E token \in Tokens, publicOnly \in BOOLEAN, status \in StatusFilters :
           ListFiles(token, publicOnly, status)
    \/ \E token \in Tokens, id \in RouteIds : GetFileInfo(token, id)
    \/ \E token \in Tokens, id \in RouteIds : Download(token, id)
    \/ \E token \in Tokens, file \in BadFiles : UploadRequest(token, file)
    \/ \E token \in Tokens, id \in RouteIds, body \in Bodies : UpdateFile(token, id, body)
    \/ \E token \in Tokens, id \in RouteIds : DeleteRequest(token, id)
    \/ \E token \in Tokens, id \in RouteIds : ProcessRequest(token, id)
    \/ ProcessTimerFire
    \/ \E token \in Tokens : QueueStatus(token)
    \/ \E env \in Envs, token \in Tokens : TestToken(env, token)

SpecRoutes == Init /\ [][NextRoutes]_vars

\* The upload model: uploads of every kind by every user, the pipeline that
\* processes the accepted ones, and DELETE requests.
NextUploads ==
    \/ \E token \in Tokens, file \in RouteFiles : UploadRequest(token, file)
    \/ \E i \in 1..MaxRouteUploads : UploadScanned(i)
    \/ \E i \in 1..MaxRouteUploads : UploadSaved(i)
    \/ \E j \in JobIds : AnalyzerDone(j)
    \/ TimerFire
    \/ \E token \in Tokens, id \in RouteIds : DeleteRequest(token, id)
    \/ \E i \in 1..MaxWrites : DeleteFinish(i)

SpecUploads == Init /\ [][NextUploads]_vars

\* The scheduling model of the fair specification with the queue-status
\* route called at any moment.
NextStatus ==
    \/ NextFair
    \/ \E token \in Tokens : QueueStatus(token)

SpecStatus == Init /\ [][NextStatus]_vars

\* ============================================== middleware: rateLimit
\* server.js mounts two limiters in front of the routers:
\*   app.use('/api/',       rateLimit(15 * 60 * 1000, 100))
\*   app.use('/api/upload', rateLimit(15 * 60 * 1000, 20))
\* Both closures read and write the one module-level rateLimitStore.
windowMs == 15 * 60 * 1000
ApiMaxRequests == 100
UploadMaxRequests == 20

\* Time moves in steps of half a window, so that entries of two instants
\* are in the window together and the older ones leave it first.
Step == windowMs \div 2

\* req.ip; req.user is not set when the limiters run, so the identifier is
\* the address alone.
Ips == {"10.0.0.1"}
Paths == {"/api/upload", "/api/auth/login", "/uploads/photo.png"}
UnderApi(path) == path \in {"/api/upload", "/api/auth/login"}
UnderUpload(path) == path = "/api/upload"

\* A list of timestamps, kept as instant -> number of entries.
NoTimestamps == <<>>
RECURSIVE Total(_)
Total(ts) ==
    IF DOMAIN ts = {} THEN 0
    ELSE LET t == CHOOSE t \in DOMAIN ts : TRUE
         IN  ts[t] + Total([u \in DOMAIN ts \ {t} |-> ts[u]])

\* timestamps.filter(t => t > windowStart)
After(ts, windowStart) == [t \in {t \in DOMAIN ts : t > windowStart} |-> ts[t]]

\* validRequests.push(now)
Pushed(ts, t) ==
    IF t \in DOMAIN ts THEN [ts EXCEPT ![t] = @ + 1] ELSE (t :> 1) @@ ts

\* The comparison of rateLimit with > in place of >=.
OverLimitStrict(count, maxRequests) == count > maxRequests

\* validRequests.length >= maxRequests
OverLimit(count, maxRequests) == count >= maxRequests

\* One call of the middleware rateLimit(window, maxRequests) for a request of
\* `identifier` at instant t on store `store`: the store it leaves, and
\* whether it called next().
rateLimit(store, identifier, t, window, maxRequests) ==
    LET windowStart == t - window
        kept == {key \in DOMAIN store : DOMAIN After(store[key], windowStart) # {}}
        cleaned == [key \in kept |-> After(store[key], windowStart)]
        validRequests == IF identifier \in kept THEN cleaned[identifier]
                         ELSE NoTimestamps
    IN  IF OverLimit(Total(validRequests), maxRequests)
        THEN [next |-> FALSE, store |-> cleaned]
        ELSE [next |-> TRUE,
              store |-> [key \in kept \cup {identifier} |->
                            IF key = identifier THEN Pushed(validRequests, t)
                            ELSE cleaned[key]]]

\* The limiters a request for `path` goes through, in mounting order.
Limited(store, ip, path, t) ==
    LET api == IF UnderApi(path)
               THEN rateLimit(store, ip, t, windowMs, ApiMaxRequests)
               ELSE [next |-> TRUE, store |-> store]
        upl == IF api.next /\ UnderUpload(path)
               THEN rateLimit(api.store, ip, t, windowMs, UploadMaxRequests)
               ELSE api
    IN  [api |-> api.next, upload |-> upl.next, store |-> upl.store]

\* 429, or 0 when the request goes on to its router.
RateStatus(ip, path) ==
    IF Limited(rateLimitStore, ip, path, now).upload THEN 0 ELSE 429

\* The requests of instant t that have gone through: those the /api/ limiter
\* let through, and those to /api/upload that reached the upload router.
NoneReached == [api |-> 0, upload |-> 0]
ReachedAt(t) == IF t \in DOMAIN reached THEN reached[t] ELSE NoneReached

\* A request arrives.
Request(ip, path) ==
    LET r == Limited(rateLimitStore, ip, path, now)
    IN  /\ rateLimitStore' = r.store
        /\ reached' =
             IF UnderApi(path) /\ r.api
             THEN (now :> [api    |-> ReachedAt(now).api + 1,
                           upload |-> ReachedAt(now).upload +
                                      (IF UnderUpload(path) /\ r.upload THEN 1 ELSE 0)])
                  @@ reached
             ELSE reached
        /\ UNCHANGED <<now, processingQueue, currentJobs, timers, running, nextId,
                       fileData, startTime, handle, dispatched, startOrder,
                       depthAtPush, settled, log, uploadedFiles, routeVars>>

\* Half a window goes by.  What is remembered of the requests that went
\* through is cut to the window that ends at the new instant.
Tick ==
    /\ now < MaxTicks * Step
    /\ now' = now + Step
    /\ reached' = After(reached, now' - windowMs)
    /\ UNCHANGED <<rateLimitStore, processingQueue, currentJobs, timers, running,
                   nextId, fileData, startTime, handle, dispatched, startOrder,
                   depthAtPush, settled, log, uploadedFiles, routeVars>>

NextRate ==
    \/ \E ip \in Ips, path \in Paths : Request(ip, path)
    \/ Tick

SpecRate == Init /\ [][NextRate]_vars

\* ------------------------------------------------ routes racing the pipeline
\* Uploads go through the pipeline while requests are made on the record of
\* one of them: the first upload that can find the pool full, so that its
\* request is sometimes waiting and sometimes running when they arrive.
RacedId == MAX_CONCURRENT_JOBS + 1
RacedBody == [publicAccess |-> Bool(TRUE)]
\* The callers: the uploader, and a caller without a token.
RacedTokens == {UserToken("user1"), NoToken}
\* The file of the raced upload is a text file or a broken image; the
\* uploads around it are text files.
RacedUploads(id) ==
    IF id = RacedId THEN FairUploads
    ELSE {u \in FairUploads : u.mimetype = "text/plain"}

NextRaces ==
    \/ \E u \in RacedUploads(nextId) : nextId <= MaxRacedJobs /\ PostUpload(u)
    \/ \E j \in JobIds : AnalyzerDone(j)
    \/ TimerFire
    \/ \E token \in RacedTokens : DeleteRequest(token, RacedId)
    \/ \E i \in 1..MaxWrites : DeleteFinish(i)
    \/ \E token \in RacedTokens : UpdateFile(token, RacedId, RacedBody)
    \/ \E token \in RacedTokens : ProcessRequest(token, RacedId)
    \/ ProcessTimerFire

SpecRaces == Init /\ [][NextRaces]_vars

\* The event loop runs every continuation and every timer that is due.
FairRaces ==
    /\ SpecRaces
    /\ WF_vars(\E j \in JobIds : AnalyzerDone(j))
    /\ WF_vars(TimerFire)

\* ------------------------------------------------------------ C21, C22
\* The requests of the window (now - windowMs, now] that went through.
RECURSIVE ReachedApi(_)
ReachedApi(r) ==
    IF DOMAIN r = {} THEN 0
    ELSE LET t == CHOOSE t \in DOMAIN r : TRUE
         IN  r[t].api + ReachedApi([u \in DOMAIN r \ {t} |-> r[u]])
RECURSIVE ReachedUpload(_)
ReachedUpload(r) ==
    IF DOMAIN r = {} THEN 0
    ELSE LET t == CHOOSE t \in DOMAIN r : TRUE
         IN  r[t].upload + ReachedUpload([u \in DOMAIN r \ {t} |-> r[u]])

\* ------------------------------------------------ reads after processing
\* Files with a table in them (and a text file) are uploaded by user1 and
\* processed, their uploader may make them public, and every caller lists
\* the files and asks for their information.
ReadUploads ==
    { u \in AllUploads :
        /\ u.content = "valid"
        /\ u.mimetype \in {"text/csv", "text/plain",
                           "application/vnd.openxmlformats-officedocument.spreadsheetml.sheet"} }
ReadBodies == {[publicAccess |-> Bool(TRUE)], [publicAccess |-> Bool(FALSE)]}

NextReads ==
    \/ \E u \in ReadUploads : nextId <= MaxRouteUploads /\ PostUpload(u)
    \/ \E j \in JobIds : AnalyzerDone(j)
    \/ TimerFire
    \/ \E token \in Tokens, publicOnly \in BOOLEAN, status \in StatusFilters :
          ListFiles(token, publicOnly, status)
    \/ \E token \in Tokens, id \in RouteIds : GetFileInfo(token, id)
    \/ \E token \in Tokens, id \in RouteIds, body \in ReadBodies :
          UpdateFile(token, id, body)

SpecReads == Init /\ [][NextReads]_vars

\* ------------------------------------------------------------- properties
Submitted(j) == j < nextId
IsSettled(j) == Submitted(j) /\ handle[j].state # "pending"
Occurrences(q, j) == Cardinality({i \in 1..Len(q) : q[i] = j})
\* j arrived behind another request: both were in the backlog, and j stayed
\* there when its processFile call returned.
Behind(j) == j \in DOMAIN depthAtPush /\ depthAtPush[j] >= 2

\* C1: in every reachable state 0 <= currentJobs <= MAX_CONCURRENT_JOBS, and
\* at most MAX_CONCURRENT_JOBS analyzers are executing.
ConcurrencyBound ==
    /\ currentJobs \in 0..MAX_CONCURRENT_JOBS
    /\ Cardinality(running) <= MAX_CONCURRENT_JOBS

\* More uploads than slots: the counter is at the cap, a request waits and a
\* delayed processNext is pending.
ConcurrencyBoundWitness ==
    /\ currentJobs = MAX_CONCURRENT_JOBS
    /\ Cardinality(running) = MAX_CONCURRENT_JOBS
    /\ Len(processingQueue) >= 1
    /\ timers >= 1

\* C2: admission is FIFO.  Job ids are handed out in the order of the
\* processFile calls, so: jobs start in increasing id order, and every job
\* still in the backlog was submitted after every job that has started.
FifoAdmission ==
    /\ \A i, k \in 1..Len(startOrder) : i < k => startOrder[i] < startOrder[k]
    /\ \A i \in 1..Len(processingQueue), k \in 1..Len(startOrder) :
           startOrder[k] < processingQueue[i]
    /\ \A i, k \in 1..Len(processingQueue) :
           i < k => processingQueue[i] < processingQueue[k]

\* A job arrived behind another one in the backlog and both have started.
FifoAdmissionWitness ==
    \E b \in JobIds : Behind(b) /\ dispatched[b] = 1 /\ dispatched[b - 1] = 1

\* C3: with terminating analyzers and firing timers, every request passed to
\* processFile eventually has its handle settled.
TotalSettlement ==
    \A j \in JobIds : Submitted(j) ~> IsSettled(j)

\* Every upload of the run was made, two of them were in the backlog at the
\* same time, and all handles are settled.
TotalSettlementWitness ==
    /\ nextId > MaxJobs
    /\ \A j \in JobIds : IsSettled(j)
    /\ \E b \in JobIds : Behind(b)

\* C4: each request is taken from the backlog exactly once and its handle is
\* settled exactly once: a submitted request is either in the backlog (once,
\* never dispatched) or was dispatched once; it is settled at most once and
\* only after its dispatch; it executes exactly between the two.
ExactlyOnce ==
    \A j \in JobIds :
        /\ dispatched[j] <= 1
        /\ settled[j] <= dispatched[j]
        /\ Submitted(j) => Occurrences(processingQueue, j) + dispatched[j] = 1
        /\ ~Submitted(j) => Occurrences(processingQueue, j) + dispatched[j] = 0
        /\ j \in running <=> (dispatched[j] = 1 /\ settled[j] = 0)
        /\ Submitted(j) => (handle[j].state = "pending" <=> settled[j] = 0)

\* A request that waited in the backlog has been dispatched once and settled
\* once while another one is still executing.
ExactlyOnceWitness ==
    \E j \in JobIds :
        /\ Behind(j) /\ dispatched[j] = 1 /\ settled[j] = 1
        /\ running # {}

\* The analyzer of job j's request throws / the message of what it throws.
Throws(j) == Submitted(j) /\ RunAnalyzer(fileData[j]).threw
Technical(j) == RunAnalyzer(fileData[j]).message
\* Job j's processNext continuation runs in this step.
Finishes(j) == j \in running /\ j \notin running'
\* The file record of job j, when there is one.
HasRecord(j) == findIndex(uploadedFiles, j) # -1
RecordOf(j) == uploadedFiles[findIndex(uploadedFiles, j) + 1]

\* C5: when the analyzer of a dispatched job throws, the step that ends the
\* job decrements the active counter by exactly one, arms one more
\* processNext timer, and settles the handle (it resolves) with
\* {status:'error', error:'Processing failed', message:<fixed text>}.
FailureHandled ==
    [][\A j \in JobIds :
         (Finishes(j) /\ Throws(j)) =>
            /\ currentJobs' = currentJobs - 1
            /\ timers' = timers + 1
            /\ handle'[j].state = "resolved"
            /\ handle'[j].value.status = "error"
            /\ handle'[j].value.error = "Processing failed"
            /\ handle'[j].value.message = "The file could not be processed successfully"
      ]_vars

\* A job whose analyzer threw has been settled with status 'error', its timer
\* is armed and a request is still waiting for the slot.
FailureHandledWitness ==
    \E j \in JobIds :
        /\ Throws(j) /\ IsSettled(j)
        /\ handle[j].state = "resolved" /\ handle[j].value.status = "error"
        /\ timers >= 1 /\ currentJobs < MAX_CONCURRENT_JOBS
        /\ Len(processingQueue) >= 1

\* C6: what a failed job delivers does not depend on the exception: it has
\* exactly the fields status, error, message (and the two clock readings),
\* none of which is the analyzer's error message; any two failed jobs get the
\* same status, error and message, and so does the file record; the
\* analyzer's message is in the log entry of the failure.
FailureIsOpaque ==
    \A j \in JobIds :
        (IsSettled(j) /\ Throws(j)) =>
            /\ handle[j].state = "resolved"
            /\ DOMAIN handle[j].value =
                   {"status", "error", "message", "endTime", "processingDuration"}
            /\ handle[j].value.status # Technical(j)
            /\ handle[j].value.error # Technical(j)
            /\ handle[j].value.message # Technical(j)
            /\ \A k \in JobIds :
                   (IsSettled(k) /\ Throws(k)) =>
                       /\ handle[k].state = "resolved"
                       /\ handle[k].value.status = handle[j].value.status
                       /\ handle[k].value.error = handle[j].value.error
                       /\ handle[k].value.message = handle[j].value.message
            /\ HasRecord(j) => RecordOf(j).processingResult = handle[j].value
            /\ \E e \in log :
                   /\ e.text = "File processing failed"
                   /\ e.fileId = j
                   /\ e.meta.error = Technical(j)

\* Two jobs failed with different analyzer messages and both are settled.
FailureIsOpaqueWitness ==
    \E j, k \in JobIds :
        /\ IsSettled(j) /\ Throws(j)
        /\ IsSettled(k) /\ Throws(k)
        /\ Technical(j) # Technical(k)

IsCorruptImage(j) ==
    Submitted(j) /\ fileData[j].mimetype \in ImageTypes /\ fileData[j].content # "valid"
IsValidText(j) ==
    Submitted(j) /\ fileData[j].mimetype = "text/plain" /\ fileData[j].content = "valid"

\* C7: failure isolation.  Whatever else is in flight, a job with a corrupt
\* image settles with status 'error' and a job with a valid text file settles
\* with status 'completed' and its text analysis; two settled jobs with the
\* same declared type and bytes have the same status.
FailureIsolation ==
    \A j \in JobIds :
        IsSettled(j) =>
            /\ handle[j].state = "resolved"
            /\ IsCorruptImage(j) => handle[j].value.status = "error"
            /\ IsValidText(j) =>
                   /\ handle[j].value.status = "completed"
                   /\ "textAnalysis" \in DOMAIN handle[j].value
            /\ \A k \in JobIds :
                   (IsSettled(k)
                      /\ fileData[k].mimetype = fileData[j].mimetype
                      /\ fileData[k].content = fileData[j].content) =>
                       /\ handle[k].state = "resolved"
                       /\ handle[k].value.status = handle[j].value.status

\* A corrupt image started after a valid text file and failed while the text
\* job was still executing; another text file has completed since.
FailureIsolationWitness ==
    \E j, k, m \in JobIds :
        /\ k < j /\ IsValidText(k) /\ k \in running
        /\ IsCorruptImage(j) /\ IsSettled(j) /\ handle[j].value.status = "error"
        /\ j < m /\ IsValidText(m) /\ IsSettled(m)
        /\ handle[m].value.status = "completed"

\* C8: processFile always accepts.  In every state a further upload can be
\* submitted; the call leaves its handle pending and the request either at
\* the tail of the backlog or started (started only if it was alone in the
\* backlog); when the counter is at MAX_CONCURRENT_JOBS the request is
\* appended at the tail and the backlog grows by exactly one.
AlwaysAccepts ==
    /\ [](nextId <= MaxJobs => \A u \in SchedUploads : ENABLED PostUpload(u))
    /\ [][nextId' # nextId =>
            /\ nextId' = nextId + 1
            /\ handle'[nextId].state = "pending"
            /\ \/ /\ Len(processingQueue') >= 1
                  /\ processingQueue'[Len(processingQueue')] = nextId
               \/ /\ processingQueue = <<>> /\ processingQueue' = <<>>
                  /\ nextId \in running'
            /\ currentJobs = MAX_CONCURRENT_JOBS =>
                  /\ processingQueue' = Append(processingQueue, nextId)
                  /\ Len(processingQueue') = Len(processingQueue) + 1
      ]_vars

\* With the counter at its maximum a request was appended behind another one
\* and its handle is pending.
AlwaysAcceptsWitness ==
    /\ currentJobs = MAX_CONCURRENT_JOBS
    /\ Len(processingQueue) >= 2
    /\ LET last == processingQueue[Len(processingQueue)]
       IN  /\ depthAtPush[last] = Len(processingQueue)
           /\ handle[last].state = "pending"

\* C9: every result delivered to a handle carries startTime, endTime, the
\* duration (processingDuration in the source) and a status in
\* {completed, error}.
EnvelopeComplete ==
    \A j \in JobIds :
        IsSettled(j) =>
            /\ handle[j].state = "resolved"
            /\ {"startTime", "endTime", "processingDuration", "status"}
                   \subseteq DOMAIN handle[j].value
            /\ handle[j].value.status \in {"completed", "error"}

\* The family-specific top-level keys of a result, and the one each declared
\* media type stands for.
PayloadKeys ==
    {"imageInfo", "csvAnalysis", "pdfAnalysis", "excelAnalysis", "textAnalysis",
     "fileInfo"}
ExpectedPayload(mimetype) ==
    CASE mimetype = "image/jpeg" -> "imageInfo"
      [] mimetype = "image/png" -> "imageInfo"
      [] mimetype = "image/gif" -> "imageInfo"
      [] mimetype = "text/csv" -> "csvAnalysis"
      [] mimetype = "application/pdf" -> "pdfAnalysis"
      [] mimetype = "application/vnd.openxmlformats-officedocument.spreadsheetml.sheet"
             -> "excelAnalysis"
      [] mimetype = "application/vnd.ms-excel" -> "excelAnalysis"
      [] mimetype = "text/plain" -> "textAnalysis"
      [] OTHER -> "fileInfo"

\* C10: the analyzer is chosen by the declared mimetype alone, and a
\* successful result contains the payload of exactly one family, the one the
\* mimetype selects.
AnalyzerByMimetype ==
    \A j \in JobIds :
        (IsSettled(j) /\ handle[j].state = "resolved"
            /\ handle[j].value.status = "completed") =>
            DOMAIN handle[j].value \cap PayloadKeys
                = {ExpectedPayload(fileData[j].mimetype)}

\* A gif and a file of an unlisted type have both been processed.
AnalyzerByMimetypeWitness ==
    \E j, k \in JobIds :
        /\ IsSettled(j) /\ fileData[j].mimetype = "image/gif"
        /\ handle[j].value.status = "completed"
        /\ IsSettled(k) /\ fileData[k].mimetype = "application/zip"
        /\ handle[k].value.status = "completed"

\* C11: a request whose media type has no analyzer never fails, whatever its
\* bytes are: its handle resolves with status 'completed' and a generic
\* result that holds, besides the note and the two clock readings, only
\* fileInfo = {size, mimetype} of the request.
UnsupportedCompletes ==
    \A j \in JobIds :
        (IsSettled(j) /\ fileData[j].mimetype \notin SupportedTypes) =>
            /\ handle[j].state = "resolved"
            /\ handle[j].value.status = "completed"
            /\ DOMAIN handle[j].value =
                   {"status", "message", "fileInfo", "endTime", "processingDuration"}
            /\ handle[j].value.fileInfo =
                   [size |-> fileData[j].size, mimetype |-> fileData[j].mimetype]

\* A file of an unlisted type whose bytes no decoder accepts has been
\* settled, after a corrupt image was settled with an error.
UnsupportedCompletesWitness ==
    \E j, k \in JobIds :
        /\ IsSettled(j) /\ fileData[j].mimetype = "application/zip"
        /\ fileData[j].content = "truncated"
        /\ IsCorruptImage(k) /\ IsSettled(k) /\ handle[k].value.status = "error"

\* The requests waiting in the backlog: submitted and not yet shifted.
Waiting == {j \in JobIds : Submitted(j) /\ dispatched[j] = 0}

\* C12: getQueueStatus is exact and read-only.  In every state the queue
\* status an admin is answered has queueLength equal to the backlog length
\* (the number of waiting requests), activeJobs equal to the active-job
\* counter (the number of executing jobs) and maxConcurrentJobs equal to 3;
\* a queue-status request changes neither the backlog, nor the counter, nor
\* the pending processNext timers.
QueueStatusExact ==
    /\ [](\A token \in Tokens :
            (token.valid /\ token.role = "admin") =>
               /\ QueueStatusStatus(token) = 200
               /\ QueueStatusBody(token).queue.queueLength = Len(processingQueue)
               /\ QueueStatusBody(token).queue.queueLength = Cardinality(Waiting)
               /\ QueueStatusBody(token).queue.activeJobs = currentJobs
               /\ QueueStatusBody(token).queue.activeJobs = Cardinality(running)
               /\ QueueStatusBody(token).queue.maxConcurrentJobs = 3
               /\ DOMAIN QueueStatusBody(token).queue =
                      {"queueLength", "activeJobs", "maxConcurrentJobs"})
    /\ [][\A token \in Tokens :
            QueueStatus(token) =>
               UNCHANGED <<processingQueue, currentJobs, timers>>]_vars

\* With three jobs executing and two requests waiting, the admin is answered
\* queueLength 2 and activeJobs 3.
QueueStatusExactWitness ==
    /\ Len(processingQueue) = 2 /\ currentJobs = 3
    /\ QueueStatusBody(UserToken("admin")).queue.queueLength = 2
    /\ QueueStatusBody(UserToken("admin")).queue.activeJobs = 3

\* C13: reconciliation by the upload route.  In the step that settles the
\* handle of job j: if the handle resolves and the file's record is still
\* present, the record gets status 'processed' and processingResult equal to
\* the resolved result, and keeps its other fields; if the record is gone
\* nothing is written; no other record is modified.  The reaction to a
\* rejected handle, applied in any state to any record, sets status 'error'
\* and processingResult {error, message} and modifies no other record.
Reconciliation ==
    /\ [][\A j \in JobIds :
            Finishes(j) =>
               /\ Len(uploadedFiles') = Len(uploadedFiles)
               /\ \A i \in 1..Len(uploadedFiles) :
                     IF uploadedFiles[i].id = j /\ handle'[j].state = "resolved"
                     THEN /\ uploadedFiles'[i].status = "processed"
                          /\ uploadedFiles'[i].processingResult = handle'[j].value
                          /\ \A k \in DOMAIN uploadedFiles[i] \
                                     {"status", "processingResult", "processedDate"} :
                                uploadedFiles'[i][k] = uploadedFiles[i][k]
                     ELSE uploadedFiles'[i] = uploadedFiles[i]
       ]_vars
    /\ [](\A id \in RouteIds :
            LET after == Reconcile(uploadedFiles, id,
                                   [state |-> "rejected", error |-> "failure"],
                                   TimeOf("processed", id))
            IN  /\ Len(after) = Len(uploadedFiles)
                /\ \A i \in 1..Len(uploadedFiles) :
                      IF uploadedFiles[i].id = id
                      THEN /\ after[i].status = "error"
                           /\ DOMAIN after[i].processingResult = {"error", "message"}
                           /\ after[i].processingResult.error = "Processing failed"
                           /\ \A k \in DOMAIN uploadedFiles[i] \
                                      {"status", "processingResult"} :
                                 after[i][k] = uploadedFiles[i][k]
                      ELSE after[i] = uploadedFiles[i])

\* One upload's handle resolved and its record holds the resolved result
\* with status 'processed', after one of the initial records was deleted.
ReconciliationWitness ==
    \E j \in JobIds :
        /\ IsSettled(j) /\ handle[j].state = "resolved"
        /\ HasRecord(j) /\ RecordOf(j).status = "processed"
        /\ RecordOf(j).processingResult = handle[j].value
        /\ Len(uploadedFiles) = 3

\* ------------------------------------------------------------------ C14
\* The records, the queue and the stored files: what a request could change.
Stored == <<uploadedFiles, processingQueue, currentJobs, timers, running, disk>>

\* What the eight documented routes answer to a request without a valid
\* token, whatever the id, the body, the file and the query.
DocumentedRoutes401 ==
    /\ ListStatus(NoToken) = 401
    /\ QueueStatusStatus(NoToken) = 401
    /\ "queue" \notin DOMAIN QueueStatusBody(NoToken)
    /\ \A publicOnly \in BOOLEAN, status \in StatusFilters :
          ListBody(uploadedFiles, NoToken, publicOnly, status) = {}
    /\ \A file \in RouteFiles : UploadStatus(NoToken, file) = 401
    /\ \A id \in RouteIds :
          /\ GetStatus(uploadedFiles, NoToken, id) = 401
          /\ DeleteStatus(uploadedFiles, NoToken, id) = 401
          /\ DownloadStatus(uploadedFiles, NoToken, id) = 401
          /\ ProcessStatus(uploadedFiles, NoToken, id) = 401
          /\ \A body \in Bodies : PutStatus(uploadedFiles, NoToken, id, body) = 401

\* A step taken by a handler for a request without a valid token.
NoTokenStep ==
    \/ \E publicOnly \in BOOLEAN, status \in StatusFilters :
          ListFiles(NoToken, publicOnly, status)
    \/ \E file \in RouteFiles : UploadRequest(NoToken, file)
    \/ \E id \in RouteIds :
          \/ GetFileInfo(NoToken, id)
          \/ Download(NoToken, id)
          \/ DeleteRequest(NoToken, id)
          \/ ProcessRequest(NoToken, id)
          \/ \E body \in Bodies : UpdateFile(NoToken, id, body)
    \/ QueueStatus(NoToken)
    \/ \E env \in Envs : TestToken(env, NoToken)

QueueStatusAdminOnly ==
    \A token \in Tokens :
       requireAuth(token) =>
          IF token.role = "admin"
          THEN /\ QueueStatusStatus(token) = 200
               /\ QueueStatusBody(token).queue = getQueueStatus
          ELSE /\ QueueStatusStatus(token) = 403
               /\ DOMAIN QueueStatusBody(token) = {"error"}

\* Requests are waiting and running, there is a status worth hiding, and
\* user1 is refused it while the admin is given it.
QueueStatusAdminOnlyWitness ==
    /\ Len(processingQueue) > 0
    /\ currentJobs = MAX_CONCURRENT_JOBS
    /\ QueueStatusStatus(UserToken("user1")) = 403
    /\ QueueStatusStatus(UserToken("admin")) = 200

\* ------------------------------------------------------------------ C16
\* What POST / answers in the end when saveFile succeeds: the status of the
\* middleware and of validateFile, else that of the virus scan, else 201.
UploadResponse(token, file) ==
    IF UploadStatus(token, file) # 0 THEN UploadStatus(token, file)
    ELSE IF ScanStatus(file) # 0 THEN ScanStatus(file)
    ELSE 201

\* The uploads C16 is about: no file, a file validateFile rejects, a file the
\* virus scan rejects.
Rejected(file) ==
    \/ ~file.present
    \/ validateFile(file) # {}
    \/ ~scanForVirus(file)

\* C16: an authenticated upload that is empty, fails validateFile or fails
\* the virus scan is answered 400, in every state in which the server can
\* take the request.
RejectedUploadAnswered400 ==
    \A token \in Tokens, file \in RouteFiles :
       /\ requireAuth(token)
       /\ Rejected(file)
       /\ ENABLED UploadRequest(token, file)
       => UploadResponse(token, file) = 400

\* The rest of the statement of C16, which holds: a rejected upload adds no
\* record, saves nothing and submits nothing, whatever it is answered; a file
\* is saved only once validateFile and the scan have passed it, and a record
\* is made and handed to processFile, in one step, only for a saved file.
RejectedUploadNoEffect ==
    /\ [](\A i \in 1..Len(uploads) :
             /\ uploads[i].file.present
             /\ validateFile(uploads[i].file) = {}
             /\ uploads[i].phase = "saving" =>
                   scanForVirus(uploads[i].file) /\ uploads[i].path \in disk)
    /\ [][\A token \in Tokens, file \in RouteFiles :
             UploadRequest(token, file) /\ UploadResponse(token, file) # 201 =>
                UNCHANGED <<uploadedFiles, disk, processingQueue, currentJobs,
                            running, handle>>]_vars
    /\ [][\A i \in 1..Len(uploads) :
             UploadScanned(i) /\ ~scanForVirus(uploads[i].file) =>
                UNCHANGED <<uploadedFiles, disk, processingQueue, currentJobs,
                            running, handle>>]_vars
    /\ [][disk' # disk /\ disk \subseteq disk' =>
             \E i \in 1..Len(uploads) :
                /\ uploads[i].phase = "scanning"
                /\ Rejected(uploads[i].file) = FALSE
                /\ disk' = disk \cup {uploads[i].path}]_vars
    /\ [][DOMAIN handle' # DOMAIN handle =>
             \E i \in 1..Len(uploads) :
                /\ uploads[i].phase = "saving"
                /\ uploads[i].path \in disk
                /\ Exists(uploadedFiles', nextId)
                /\ ~Exists(uploadedFiles, nextId)
                /\ DOMAIN handle' = DOMAIN handle \cup {nextId}]_vars

\* ------------------------------------------------------------------ C17
\* What a PUT answered 200 has done to the records: old and new are the
\* record of `id` before and after.
PutFrame(id, body) ==
    LET i   == findIndex(uploadedFiles, id) + 1
        old == uploadedFiles[i]
        new == uploadedFiles'[i]
    IN  /\ Len(uploadedFiles') = Len(uploadedFiles)
        /\ \A j \in 1..Len(uploadedFiles) : j # i => uploadedFiles'[j] = uploadedFiles[j]
        /\ DOMAIN new = DOMAIN old \cup DOMAIN body \cup {"lastModified"}
        /\ DOMAIN body \subseteq {"publicAccess", "originalName"}
        /\ \A k \in DOMAIN old \ (DOMAIN body \cup {"lastModified"}) : new[k] = old[k]
        /\ "publicAccess" \in DOMAIN body => new.publicAccess = body.publicAccess.bool
        /\ "originalName" \in DOMAIN body =>
              new.originalName = substring255(trim(body.originalName.text))
        /\ new.lastModified = TimeOf("modified", id)
        /\ new.id = old.id
        /\ new.status = old.status
        /\ new.processingResult = old.processingResult
        /\ new.uploadedBy = old.uploadedBy
        /\ new.downloadUrl = old.downloadUrl

\* C17: a PUT /:fileId answered 200 to the uploader or an admin sets the
\* supplied fields among publicAccess and originalName (the name trimmed and
\* cut to 255 characters), sets lastModified, and leaves the record's id,
\* status, processingResult, uploadedBy and every other record as they were.
\* (Every accepted write is counted in `writes`, so only the steps that
\* change it need looking at.)
PutSetsAllowedFieldsOnly ==
    [][writes' # writes =>
         \A token \in Tokens, id \in RouteIds, body \in Bodies :
            /\ PutStatus(uploadedFiles, token, id, body) = 200
            /\ UpdateFile(token, id, body)
            => /\ token.role = "admin" \/ Find(uploadedFiles, id).uploadedBy = token.userId
               /\ PutFrame(id, body)
               /\ UNCHANGED <<disk, processingQueue, currentJobs>>]_vars

\* user1 has renamed file-001 with a name of 300 characters and made it
\* public: the name is stored cut, the status and the owner are as before,
\* and the other two records are the seeds.
PutSetsAllowedFieldsOnlyWitness ==
    /\ Exists(uploadedFiles, -1)
    /\ Find(uploadedFiles, -1).originalName = LongName255
    /\ Find(uploadedFiles, -1).publicAccess
    /\ "lastModified" \in DOMAIN Find(uploadedFiles, -1)
    /\ Find(uploadedFiles, -1).status = "processed"
    /\ Find(uploadedFiles, -1).uploadedBy = "user1"
    /\ Exists(uploadedFiles, -3)
    /\ Find(uploadedFiles, -3) = SeedFiles[3]

\* ------------------------------------------------------------------ C18
\* C18: once a DELETE /:fileId has been answered 200, the record is gone:
\* get, update, delete, download and process on that id answer 404 to every
\* authenticated caller and no listing holds the id.
DeletedIsGone ==
    \A id \in deleted :
       /\ ~Exists(uploadedFiles, id)
       /\ \A token \in Tokens :
             requireAuth(token) =>
                /\ GetStatus(uploadedFiles, token, id) = 404
                /\ DeleteStatus(uploadedFiles, token, id) = 404
                /\ DownloadStatus(uploadedFiles, token, id) = 404
                /\ ProcessStatus(uploadedFiles, token, id) = 404
                /\ \A body \in Bodies : PutStatus(uploadedFiles, token, id, body) = 404
                /\ \A publicOnly \in BOOLEAN, status \in StatusFilters :
                      id \notin ListBody(uploadedFiles, token, publicOnly, status)

\* ------------------------------------------------------------------ C19
\* C19: for every authenticated caller who is not an admin and every record
\* that is neither public nor uploaded by the caller, get-info and download
\* answer 403 and no listing, whatever its query, holds the record.
PrivateFilesStayPrivate ==
    \A token \in Tokens :
       requireAuth(token) /\ token.role # "admin" =>
          \A i \in 1..Len(uploadedFiles) :
             LET f == uploadedFiles[i]
             IN  ~f.publicAccess /\ f.uploadedBy # token.userId =>
                    /\ GetStatus(uploadedFiles, token, f.id) = 403
                    /\ DownloadStatus(uploadedFiles, token, f.id) = 403
                    /\ \A publicOnly \in BOOLEAN, status \in StatusFilters :
                          f.id \notin ListBody(uploadedFiles, token, publicOnly, status)

\* The admin has made file-002, public at the start, private: user1, who
\* could read it, is now refused it and no longer sees it in the listing,
\* and is still shown the own file-001.
PrivateFilesStayPrivateWitness ==
    /\ Exists(uploadedFiles, -2)
    /\ ~Find(uploadedFiles, -2).publicAccess
    /\ "lastModified" \in DOMAIN Find(uploadedFiles, -2)
    /\ GetStatus(uploadedFiles, UserToken("user1"), -2) = 403
    /\ DownloadStatus(uploadedFiles, UserToken("user1"), -2) = 403
    /\ ListBody(uploadedFiles, UserToken("user1"), FALSE, NoStatus) = {-1}

\* ------------------------------------------------------------------ C20
\* An authenticated caller who is neither an admin nor the uploader of the
\* record with this id.
Stranger(token, id) ==
    /\ requireAuth(token)
    /\ token.role # "admin"
    /\ Exists(uploadedFiles, id)
    /\ Find(uploadedFiles, id).uploadedBy # token.userId

\* C20: update, delete and process requests by a caller who is neither the
\* uploader nor an admin are answered 403, public file or not, and the step
\* that handles such a request changes no record, no stored file, and starts
\* no deletion and no processing timer.
StrangersCannotModify ==
    /\ [](\A token \in Tokens, id \in RouteIds :
             Stranger(token, id) =>
                /\ DeleteStatus(uploadedFiles, token, id) = 403
                /\ ProcessStatus(uploadedFiles, token, id) = 403
                /\ \A body \in Bodies : PutStatus(uploadedFiles, token, id, body) = 403)
    /\ [][\A token \in Tokens, id \in RouteIds :
             /\ Stranger(token, id)
             /\ \/ DeleteRequest(token, id)
                \/ ProcessRequest(token, id)
                \/ \E body \in Bodies : UpdateFile(token, id, body)
             => UNCHANGED <<uploadedFiles, disk, deleting, processTimers>>]_vars

\* file-002 is public and has been renamed by its uploader, the admin: user1
\* may read it, and is refused its update, its deletion and its processing.
StrangersCannotModifyWitness ==
    /\ Exists(uploadedFiles, -2)
    /\ Find(uploadedFiles, -2).publicAccess
    /\ Find(uploadedFiles, -2).originalName = "renamed.pdf"
    /\ GetStatus(uploadedFiles, UserToken("user1"), -2) = 200
    /\ PutStatus(uploadedFiles, UserToken("user1"), -2, [publicAccess |-> Bool(FALSE)]) = 403
    /\ DeleteStatus(uploadedFiles, UserToken("user1"), -2) = 403
    /\ ProcessStatus(uploadedFiles, UserToken("user1"), -2) = 403

\* C21: in the window of 15 minutes that ends now, at most 100 requests to
\* /api/* and at most 20 requests to /api/upload of a client have gone
\* through the limiters, and once the bound is reached the next request is
\* answered 429.
RateLimitBound ==
    /\ ReachedApi(reached) <= ApiMaxRequests
    /\ ReachedUpload(reached) <= UploadMaxRequests
    /\ \A ip \in Ips, path \in Paths :
          /\ UnderApi(path) /\ ReachedApi(reached) >= ApiMaxRequests =>
                RateStatus(ip, path) = 429
          /\ UnderUpload(path) /\ ReachedUpload(reached) >= UploadMaxRequests =>
                RateStatus(ip, path) = 429

\* A hundred requests of two instants of the same window have gone through,
\* and the next one to /api/ is turned away while a request outside /api/ is
\* not.
RateLimitBoundWitness ==
    /\ Cardinality(DOMAIN reached) = 2
    /\ ReachedApi(reached) = ApiMaxRequests
    /\ RateStatus("10.0.0.1", "/api/auth/login") = 429
    /\ RateStatus("10.0.0.1", "/api/upload") = 429
    /\ RateStatus("10.0.0.1", "/uploads/photo.png") = 0

\* C22: a client whose requests of the last 15 minutes were all to
\* /api/upload, fewer than 20 of them let through, has its next request to
\* /api/upload let through.
UploadQuotaUsable ==
    \A ip \in Ips :
       /\ ReachedApi(reached) = ReachedUpload(reached)
       /\ ReachedUpload(reached) < UploadMaxRequests
       => RateStatus(ip, "/api/upload") = 0

\* ------------------------------------------------------------------ C23
\* The requests whose handle is pending, and those of them that have been
\* shifted off the backlog.
Unsettled == {j \in JobIds : Submitted(j) /\ handle[j].state = "pending"}
Active == {j \in Unsettled : dispatched[j] > 0}

\* C23: counter integrity.  In every reachable state currentJobs is the
\* number of dispatched requests whose handle is pending, and the backlog
\* length plus currentJobs is the number of submitted requests whose handle
\* is pending; the counter is never negative; a step changes it by one at
\* most, and raises it only from below MAX_CONCURRENT_JOBS, together with
\* the shift of exactly one request.
CounterIntegrity ==
    /\ [](/\ currentJobs = Cardinality(Active)
          /\ Len(processingQueue) + currentJobs = Cardinality(Unsettled)
          /\ currentJobs >= 0)
    /\ [][/\ currentJobs' \in {currentJobs - 1, currentJobs, currentJobs + 1}
          /\ currentJobs' = currentJobs + 1 =>
                /\ currentJobs < MAX_CONCURRENT_JOBS
                /\ Cardinality(Active') = Cardinality(Active) + 1
                /\ Len(startOrder') = Len(startOrder) + 1
          /\ currentJobs' = currentJobs - 1 =>
                /\ Cardinality(Unsettled') = Cardinality(Unsettled) - 1
                /\ Len(processingQueue') = Len(processingQueue)]_vars

\* The pool is full with a request waiting, after a job has finished and its
\* slot has been taken again.
CounterIntegrityWitness ==
    /\ currentJobs = MAX_CONCURRENT_JOBS
    /\ Len(processingQueue) >= 1
    /\ Cardinality(Unsettled) = MAX_CONCURRENT_JOBS + Len(processingQueue)
    /\ \E j \in JobIds : IsSettled(j)
    /\ Len(startOrder) > MAX_CONCURRENT_JOBS

\* ------------------------------------------------------------------ C24
InBacklog(q, j) == \E i \in 1..Len(q) : q[i] = j

\* A step of a route handler on the raced record.
RouteStep ==
    \/ \E token \in RacedTokens :
          \/ DeleteRequest(token, RacedId)
          \/ UpdateFile(token, RacedId, RacedBody)
          \/ ProcessRequest(token, RacedId)
    \/ \E i \in 1..MaxWrites : DeleteFinish(i)
    \/ ProcessTimerFire

\* What the service keeps of its requests.
Pipeline == <<processingQueue, currentJobs, timers, running, fileData, handle,
              dispatched, startOrder>>

\* C24: no cancellation.  A submitted request whose handle is pending is in
\* the backlog or running; it leaves the backlog only by being dispatched
\* and stops running only when its handle is settled; its fileData stays
\* what was submitted; the steps of DELETE, PUT and POST /:fileId/process on
\* its record change nothing the service keeps; and every submitted request
\* is settled in the end.
NoCancellation ==
    /\ [](\A j \in JobIds :
             Submitted(j) /\ handle[j].state = "pending" =>
                InBacklog(processingQueue, j) \/ j \in running)
    /\ [][\A j \in JobIds :
             /\ InBacklog(processingQueue, j) /\ ~InBacklog(processingQueue', j) =>
                   j \in running' /\ dispatched'[j] = dispatched[j] + 1
             /\ j \in running /\ j \notin running' => handle'[j].state # "pending"
             /\ Submitted(j) => fileData'[j] = fileData[j]]_vars
    /\ [][RouteStep => UNCHANGED Pipeline]_vars
    /\ \A j \in JobIds : Submitted(j) ~> IsSettled(j)

\* The record of the raced upload has been deleted (DELETE answered 200 and
\* the record gone) while its request is still waiting behind a full pool.
NoCancellationWitness ==
    /\ RacedId \in deleted
    /\ ~Exists(uploadedFiles, RacedId)
    /\ InBacklog(processingQueue, RacedId)
    /\ currentJobs = MAX_CONCURRENT_JOBS

\* ------------------------------------------------------------------ C25
\* C25: no lost wakeup.  Whenever the backlog is non-empty, currentJobs plus
\* the number of pending processNext timers is at least
\* MAX_CONCURRENT_JOBS, so a free slot with a request waiting always has a
\* timer pending; a step starts at most one job; the step that ends a job
\* arms exactly one timer; a submission calls processNext once, which starts
\* a job there and then when a slot is free; a timer that fires is used up.
NoLostWakeup ==
    /\ [](/\ processingQueue # <<>> =>
                currentJobs + timers >= MAX_CONCURRENT_JOBS
          /\ processingQueue # <<>> /\ currentJobs < MAX_CONCURRENT_JOBS =>
                timers >= 1)
    /\ [][/\ Len(startOrder') - Len(startOrder) \in {0, 1}
          /\ \A j \in JobIds : Finishes(j) => timers' = timers + 1
          /\ nextId' # nextId =>
                /\ timers' = timers
                /\ currentJobs < MAX_CONCURRENT_JOBS => currentJobs' = currentJobs + 1
          /\ timers' < timers =>
                /\ timers' = timers - 1
                /\ processingQueue # <<>> /\ currentJobs < MAX_CONCURRENT_JOBS =>
                      Len(startOrder') = Len(startOrder) + 1]_vars

\* A slot is free while a request waits, and exactly one timer stands
\* between the request and the slot.
NoLostWakeupWitness ==
    /\ processingQueue # <<>>
    /\ currentJobs = MAX_CONCURRENT_JOBS - 1
    /\ timers = 1

\* ------------------------------------------------------------------ C26
\* C26: the handle of processFile never rejects.  No handle is ever in the
\* rejected state; a request whose analyzer threw is settled by a resolved
\* result with status 'error', and its record ends with status 'processed'
\* and that result; no step writes status 'error' to a record.
HandleNeverRejects ==
    /\ [](\A j \in JobIds :
             Submitted(j) =>
                /\ handle[j].state # "rejected"
                /\ IsSettled(j) /\ Throws(j) =>
                      /\ handle[j].state = "resolved"
                      /\ handle[j].value.status = "error"
                      /\ HasRecord(j) =>
                            /\ RecordOf(j).status = "processed"
                            /\ RecordOf(j).processingResult = handle[j].value)
    /\ [][\A i \in 1..Len(uploadedFiles') :
             uploadedFiles'[i].status = "error" =>
                /\ i \in 1..Len(uploadedFiles)
                /\ uploadedFiles[i] = uploadedFiles'[i]]_vars

\* The analyzer of a broken image threw, and its record says 'processed'
\* with a result that says 'error'.
HandleNeverRejectsWitness ==
    \E j \in JobIds :
       /\ IsSettled(j)
       /\ Throws(j)
       /\ HasRecord(j)
       /\ RecordOf(j).status = "processed"
       /\ RecordOf(j).processingResult.status = "error"

\* ------------------------------------------------------------------ C27
\* C27: when the job of a request ends and the record of its file is no
\* longer in the store, the settlement writes nothing: the records after the
\* step are the records before it, none added and none changed.
SettlementAfterDeleteWritesNothing ==
    [][\A j \in JobIds :
          Finishes(j) /\ ~Exists(uploadedFiles, j) =>
             uploadedFiles' = uploadedFiles]_vars

\* The record of the raced upload was deleted before its job ended: the job
\* is settled, the record is absent, and the records uploaded before it are
\* in the store, each with the result of its own job.
SettlementAfterDeleteWritesNothingWitness ==
    /\ RacedId \in deleted
    /\ ~Exists(uploadedFiles, RacedId)
    /\ IsSettled(RacedId)
    /\ dispatched[RacedId] = 1
    /\ \A j \in 1..MAX_CONCURRENT_JOBS :
          /\ Exists(uploadedFiles, j)
          /\ IsSettled(j) => Find(uploadedFiles, j).processingResult = handle[j].value

\* ------------------------------------------------------------------ C28
\* C28: reading never changes stored results.  Whatever list and get-info
\* requests have been made, the stored processingResult of a processed
\* upload is the result its job delivered, and that is what an admin is
\* shown.
ReadsKeepStoredResults ==
    \A j \in JobIds :
       IsSettled(j) /\ HasRecord(j) /\ handle[j].state = "resolved" =>
          /\ RecordOf(j).processingResult = handle[j].value
          /\ sanitizeProcessingResult(RecordOf(j).processingResult, TRUE) = handle[j].value

\* ------------------------------------------------------------------ C29
\* The rows of a request whose value in `column` is not blank.
NonBlank(rows, column) == {i \in 1..Len(rows) : ~IsBlank(rows[i][column])}

\* The type the fixed priority gives a column: 'empty' with no non-blank
\* value, else 'number' if all are numeric, else 'email' if one is
\* email-like, else 'date' if one parses as a date, else 'text'.
PriorityType(rows, column) ==
    LET some == NonBlank(rows, column)
    IN  CASE some = {} -> "empty"
          [] some # {} /\ \A i \in some : IsNumeric(rows[i][column]) -> "number"
          [] OTHER ->
                IF \E i \in some : IsEmail(rows[i][column]) THEN "email"
                ELSE IF \E i \in some : IsDate(rows[i][column]) THEN "date"
                ELSE "text"

\* A CSV request whose analysis has been delivered.
Analyzed(j) ==
    /\ Submitted(j)
    /\ handle[j].state = "resolved"
    /\ handle[j].value.status = "completed"
    /\ "csvAnalysis" \in DOMAIN handle[j].value

\* C29: the estimatedDataTypes of every analyzed CSV file has one entry for
\* each column of the first sampled row, and the entry is the type the fixed
\* priority gives the column over its sampled non-blank values; a column
\* whose values are all numeric is 'number' even when they parse as dates.
ColumnTypesFollowPriority ==
    \A j \in JobIds :
        Analyzed(j) =>
            LET rows  == SampleRows(fileData[j])
                types == handle[j].value.csvAnalysis.estimatedDataTypes
            IN  /\ DOMAIN types = (IF Len(rows) = 0 THEN {} ELSE DOMAIN rows[1])
                /\ \A column \in DOMAIN types :
                      /\ types[column] = PriorityType(rows, column)
                      /\ (/\ NonBlank(rows, column) # {}
                          /\ \A i \in NonBlank(rows, column) :
                                IsNumeric(rows[i][column]) /\ IsDate(rows[i][column]))
                            => types[column] = "number"

\* An analyzed file with a blank cell and cells that are numeric and parse as
\* dates in one column, which is typed 'number'.
ColumnTypesFollowPriorityWitness ==
    \E j \in JobIds :
        /\ Analyzed(j)
        /\ LET rows == SampleRows(fileData[j])
           IN  /\ Len(rows) = MaxCells
               /\ \E i \in 1..Len(rows) : IsBlank(rows[i].value)
               /\ \E i \in 1..Len(rows) :
                     IsNumeric(rows[i].value) /\ IsDate(rows[i].value)
               /\ handle[j].value.csvAnalysis.estimatedDataTypes.value = "number"

====
